---------------------------- MODULE Spec2Model ----------------------------
(***************************************************************************)
(* Emergency routing over an edge-based road graph.                        *)
(*                                                                         *)
(* The graph nodes are oriented road segments (u, v, k); the graph edges   *)
(* are turn transitions carrying a turn cost.  The three searches of       *)
(* core/search_algorithms.py are modelled as operators that replay the     *)
(* code's loops pop by pop; the planner of core/route_planner.py is a      *)
(* state machine that performs one relaxation-level attempt per step.      *)
(*                                                                         *)
(* Numbers: times are integers (one unit = one second); math.inf is the    *)
(* value Inf, larger than every finite cost the bounded graphs can yield.  *)
(* Coordinates lie on the line y = 0 at multiples of the speed constant,   *)
(* so that hypot(dx, 0) / vmax is the integer |dx| / vmax.                 *)
(* A null route (route_enodes = None) is the empty sequence: a non-null    *)
(* route always holds at least the target segment, and every test the      *)
(* code makes on it is "not route_enodes".                                 *)
(***************************************************************************)
EXTENDS Integers, Sequences, FiniteSets, TLC

\* ------------------------------------------------------------------ bounds
MaxTT == 2          \* base travel time of a segment ranges over 0..MaxTT
MaxTotal == 4       \* the base travel times of a search graph sum to at most this
MaxClosed == 1      \* at most this many segments are marked closed
MaxSpecial == 1     \* at most this many segments are narrow or bridges
MaxTurn == 1        \* the turn cost of a graph's transitions ranges over 0..MaxTurn
MaxVisits == 2      \* an expansion cap ranges over 0..MaxVisits
MaxApplies == 2     \* apply_traffic_to_graph calls made while one route is planned
MaxLevel == 4       \* relax_constraints is called with the levels 0..MaxLevel
MaxBase == 2        \* base_turn_penalty ranges over 1..MaxBase
MaxRoute == 3       \* an edge-route handed to a conversion has 0..MaxRoute segments

\* --------------------------------------------------------------- constants
Inf == 1000000      \* math.inf
NoneVal == 0 - 1    \* None, where the code expects a number
Vmax == 30          \* vmax_mps default

\* ------------------------------------------------------------ graph access
NoSeg == <<0, 0, 0>>   \* None, where the code expects a segment

\* The edge graph EG is a record:
\*   segs         the graph's nodes, triples <<u, v, k>>
\*   travel_time  base travel time of each segment
\*   traffic_mult traffic multiplier of each segment
\*   penalty      additive fixed penalty of each segment
\*   closed       "True", "False" or "Absent" (attribute not set)
\*   turn_cost    turn cost of each transition <<a, b>>; its domain is the
\*                graph's edge set
\*   x            x coordinate of each original node (y = 0 throughout)
\*   lanes, bridge, tunnel, maxheight, maxweight, highway: see the
\*                constraint engine

orig_u(e) == e[1]
orig_v(e) == e[2]

Abs(n) == IF n < 0 THEN 0 - n ELSE n

\* graph_utils.enode_travel_time
enode_travel_time(G, e) ==
    G.travel_time[e] * G.traffic_mult[e] + G.penalty[e]

\* a closed test that reads no flag
is_enode_closed_never(G, e) == FALSE

\* graph_utils.is_enode_closed: bool(data.get("closed", False))
is_enode_closed(G, e) == G.closed[e] = "True"

\* graph_utils.enodes_from_start
enodes_from_start(G, start_node_id) ==
    { n \in G.segs : orig_u(n) = start_node_id }

\* graph_utils.target_nodes
target_nodes(G, target_node_id) ==
    { n \in G.segs : orig_v(n) = target_node_id }

\* EG.successors / EG.predecessors / EG.has_edge / EG.edges[a, b]["turn_cost"]
has_edge(G, a, b) == <<a, b>> \in DOMAIN G.turn_cost
successors(G, e) == { n \in G.segs : has_edge(G, e, n) }
predecessors(G, e) == { n \in G.segs : has_edge(G, n, e) }
turn_cost(G, a, b) == G.turn_cost[<<a, b>>]

\* Python's ordering of the segment triples (tuple comparison)
SegLt(a, b) ==
    \/ a[1] < b[1]
    \/ a[1] = b[1] /\ a[2] < b[2]
    \/ a[1] = b[1] /\ a[2] = b[2] /\ a[3] < b[3]

\* a pop that takes the greatest entry instead of the least
HeapTop2Last(pq) ==
    CHOOSE e \in pq : \A o \in pq \ {e} :
        \/ e[1] > o[1]
        \/ e[1] = o[1] /\ SegLt(o[2], e[2])

\* heapq.heappop on entries (cost, enode): the least entry
HeapTop2(pq) ==
    CHOOSE e \in pq : \A o \in pq \ {e} :
        \/ e[1] < o[1]
        \/ e[1] = o[1] /\ SegLt(e[2], o[2])

\* heapq.heappop on entries (f, g, enode): the least entry
HeapTop3(pq) ==
    CHOOSE e \in pq : \A o \in pq \ {e} :
        \/ e[1] < o[1]
        \/ e[1] = o[1] /\ e[2] < o[2]
        \/ e[1] = o[1] /\ e[2] = o[2] /\ SegLt(e[3], o[3])

\* the predecessor-chain walk "while current is not None: ... prev.get(current)",
\* giving the chain from current back to a seed, seed first
RECURSIVE ChainTo(_, _)
ChainTo(prev, current) ==
    IF current = NoSeg THEN <<>>
    ELSE Append(ChainTo(prev, prev[current]), current)

\* a walk that stops after its first segment
ChainFromOneStep(prev, current) ==
    IF current = NoSeg THEN <<>> ELSE <<current>>

\* the same walk, not reversed: current first
RECURSIVE ChainFrom(_, _)
ChainFrom(prev, current) ==
    IF current = NoSeg THEN <<>>
    ELSE <<current>> \o ChainFrom(prev, prev[current])

\* the inline edge-route to node-route conversion of the three searches
route_nodes_of(path_enodes) ==
    IF path_enodes = <<>> THEN <<>>
    ELSE <<orig_u(path_enodes[1])>> \o
         [i \in 1..Len(path_enodes) |-> orig_v(path_enodes[i])]

\* The result records carry two fields the code's dicts do not have: raised is
\* TRUE when the call ends by an exception instead of returning, capped is
\* TRUE when the search loop was left by the break of the expansion cap.
NullRoute(expanded) ==
    [route_nodes |-> <<>>, route_enodes |-> <<>>, cost |-> Inf,
     expanded |-> expanded, raised |-> FALSE, capped |-> FALSE]

Raised ==
    [route_nodes |-> <<>>, route_enodes |-> <<>>, cost |-> Inf,
     expanded |-> 0, raised |-> TRUE, capped |-> FALSE]

FoundRoute(path_enodes, cost, expanded) ==
    [route_nodes |-> route_nodes_of(path_enodes), route_enodes |-> path_enodes,
     cost |-> cost, expanded |-> expanded, raised |-> FALSE, capped |-> FALSE]

\* the result r of a search whose loop ended as the flag says
Ended(r, capped) == [r EXCEPT !.capped = capped]

\* ------------------------------------------------------- constraint engine
\* Heights and weights are in tenths (3.5 m is 35, 12.0 t is 120).
\* A constraint set is a function from its keys to their values; "key in
\* constraints" is membership in its DOMAIN; constraints = None and the empty
\* dict are both the empty function.
NoConstraints == <<>>
Has(c, key) == key \in DOMAIN c
\* dict.get(key, default)
Get(c, key, default) == IF key \in DOMAIN c THEN c[key] ELSE default

RoadTypes ==
    {"primary", "secondary", "tertiary", "unclassified", "primary_link",
     "service", "residential", "busway", "secondary_link", "tertiary_link",
     "living_street"}

VEHICLE_PROFILES ==
    [ambulance |->
        [max_height |-> 30, max_weight |-> 40, min_lanes |-> 1,
         avoid_closed |-> TRUE, traffic_multi |-> 1,
         non_preferred_penalty |-> 3, road_type |-> RoadTypes,
         hard_constraints |-> {"max_height", "max_weight", "max_width"},
         soft_constraints |-> {"min_lanes", "road_type", "avoid_closed"}],
     fire_engine |->
        [max_height |-> 35, max_weight |-> 120, min_lanes |-> 2,
         avoid_closed |-> TRUE, traffic_multi |-> 2,
         non_preferred_penalty |-> 3, road_type |-> RoadTypes,
         hard_constraints |-> {"max_height", "max_weight", "max_width"},
         soft_constraints |-> {"min_lanes", "road_type", "avoid_closed"}],
     police_units |->
        [max_height |-> 25, max_weight |-> 25, min_lanes |-> 1,
         avoid_closed |-> FALSE, traffic_multi |-> 2,
         non_preferred_penalty |-> 3, road_type |-> RoadTypes,
         hard_constraints |-> {"max_height", "max_weight"},
         soft_constraints |-> {"min_lanes", "road_type", "avoid_closed"}]]

VehicleTypes == DOMAIN VEHICLE_PROFILES

DefaultBridgeHeight == 50    \* data.get("maxheight", 5.0) on a bridge
DefaultBridgeWeight == 300   \* data.get("maxweight", 30.0)
DefaultTunnelHeight == 45    \* data.get("maxheight", 4.5) in a tunnel
DefaultLanes == 2            \* _safe_int(data.get("lanes"), default=2)
DefaultPenalty == 10         \* constraints.get("non_preferred_penalty", 10.0)

\* a variant that leaves an unset attribute unset
AttrOrRaw(v, default) == v

\* data.get(attr, default) on a numeric attribute; NoneVal marks it unset
AttrOr(v, default) == IF v = NoneVal THEN default ELSE v

\* An attribute is a number, a text that reads as that number, or a text that
\* does not read as a number ("4.5 m", "none"): Unparsable stands for the last.
Unparsable == 0 - 2
SafeFloatDefault == 10       \* _safe_float(value, default=1.0)

\* graph_utils._safe_float: None and unreadable text give the default
_safe_float(value) ==
    IF value \in {NoneVal, Unparsable} THEN SafeFloatDefault ELSE value

\* graph_utils._safe_int: None and text that is not all digits give the default
_safe_int(value, default) ==
    IF value \in {NoneVal, Unparsable} THEN default ELSE value

IsYes(v) == v \in {"yes", "true", "1"}

\* data.get("closed", True), as validate_single_edge reads the flag
closed_or_unset(G, e) == G.closed[e] \in {"True", "Absent"}

\* validate_single_edge: <<ok, penalty>>
validate_single_edge(G, e, c) ==
    LET npp == Get(c, "non_preferred_penalty", DefaultPenalty)
        p1 == IF Get(c, "avoid_closed", FALSE) /\ closed_or_unset(G, e)
              THEN npp ELSE 0
        p2 == IF Has(c, "avoid_closed") /\ c["avoid_closed"]
                 /\ closed_or_unset(G, e)
              THEN npp ELSE 0
        p3 == IF Has(c, "tunnel") /\ G.tunnel[e] \notin c["tunnel"]
              THEN npp ELSE 0
        p4 == IF Has(c, "bridge") /\ G.bridge[e] \notin c["bridge"]
              THEN npp ELSE 0
        p5 == IF Has(c, "road_type") /\ G.highway[e] \notin c["road_type"]
              THEN npp ELSE 0
    IN  IF /\ IsYes(G.bridge[e])
           /\ Has(c, "max_height")
           /\ _safe_float(AttrOr(G.maxheight[e], DefaultBridgeHeight))
                > c["max_height"]
        THEN <<FALSE, Inf>>
        ELSE IF /\ IsYes(G.bridge[e])
                /\ Has(c, "max_weight")
                /\ _safe_float(AttrOr(G.maxweight[e], DefaultBridgeWeight))
                     > c["max_weight"]
        THEN <<FALSE, Inf>>
        ELSE IF /\ IsYes(G.tunnel[e])
                /\ Has(c, "max_height")
                /\ _safe_float(AttrOr(G.maxheight[e], DefaultTunnelHeight))
                     > c["max_height"]
        THEN <<FALSE, Inf>>
        ELSE IF /\ Has(c, "min_lanes")
                /\ _safe_int(G.lanes[e], DefaultLanes) < c["min_lanes"]
        THEN <<FALSE, Inf>>
        ELSE <<TRUE, p1 + p2 + p3 + p4 + p5>>

\* a variant that counts the penalty of the first segment only
SumPenaltyFirst(G, route_enodes, c) ==
    IF route_enodes = <<>> THEN 0
    ELSE validate_single_edge(G, Head(route_enodes), c)[2]

\* validate_route: <<ok, total_penalty>>
RECURSIVE SumPenalty(_, _, _)
SumPenalty(G, route_enodes, c) ==
    IF route_enodes = <<>> THEN 0
    ELSE validate_single_edge(G, Head(route_enodes), c)[2]
         + SumPenalty(G, Tail(route_enodes), c)

validate_route(G, route_enodes, c) ==
    IF route_enodes = <<>> THEN <<FALSE, Inf>>
    ELSE IF \E i \in 1..Len(route_enodes) :
               ~validate_single_edge(G, route_enodes[i], c)[1]
    THEN <<FALSE, Inf>>
    ELSE <<TRUE, SumPenalty(G, route_enodes, c)>>

\* the constraint filter the searches apply to the seed and target sets
\* ("if constraints:" is false for None and for the empty dict)
filter_enodes(G, enodes, c) ==
    IF DOMAIN c = {} THEN enodes
    ELSE { en \in enodes : validate_single_edge(G, en, c)[1] }

\* route_planner.relax_constraints
Restrict(c, keys) == [k \in DOMAIN c \cap keys |-> c[k]]

\* a variant in which a level makes only its own removals
relax_constraints_own_level(base, level) ==
    LET c1 == IF level = 1
              THEN Restrict(base, DOMAIN base \ {"road_type", "traffic_multi"})
              ELSE base
        c2 == IF level = 2 THEN Restrict(c1, DOMAIN c1 \ {"min_lanes"})
              ELSE c1
        c3 == IF level >= 3 THEN Restrict(c2, {"avoid_closed"}) ELSE c2
    IN  c3

relax_constraints(base, level) ==
    LET c1 == IF level >= 1
              THEN Restrict(base, DOMAIN base \ {"road_type", "traffic_multi"})
              ELSE base
        c2 == IF level >= 2 THEN Restrict(c1, DOMAIN c1 \ {"min_lanes"})
              ELSE c1
        c3 == IF level >= 3 THEN Restrict(c2, {"avoid_closed"}) ELSE c2
    IN  c3

\* graph_utils.compute_route_tt
RECURSIVE RouteTT(_, _, _)
RouteTT(G, route_enodes, i) ==
    IF i > Len(route_enodes) THEN 0
    ELSE (IF has_edge(G, route_enodes[i - 1], route_enodes[i])
          THEN turn_cost(G, route_enodes[i - 1], route_enodes[i]) ELSE 0)
         + enode_travel_time(G, route_enodes[i])
         + RouteTT(G, route_enodes, i + 1)

compute_route_tt(G, route_enodes) ==
    IF route_enodes = <<>> THEN Inf
    ELSE enode_travel_time(G, route_enodes[1]) + RouteTT(G, route_enodes, 2)

\* ---------------------------------------------------------------- dijkstra
\* One iteration of "while pq" of dijkstra_route; s.run is FALSE once the
\* loop has ended.
DijkstraStep(G, targets, allow_closed, max_visits, s) ==
    LET top == HeapTop2(s.pq)
        cost_u == top[1]
        enode == top[2]
        rest == s.pq \ {top}
        cand(n) == cost_u + turn_cost(G, enode, n) + enode_travel_time(G, n)
        better == { n \in successors(G, enode) :
                      /\ ~(~allow_closed /\ is_enode_closed(G, n))
                      /\ cand(n) < s.dist[n] }
    IN  IF max_visits # NoneVal /\ s.expanded >= max_visits
        THEN [s EXCEPT !.pq = rest, !.run = FALSE, !.capped = TRUE]
        ELSE IF cost_u > s.dist[enode]
        THEN [s EXCEPT !.pq = rest]
        ELSE IF enode \in targets
        THEN [s EXCEPT !.pq = rest, !.run = FALSE, !.expanded = @ + 1,
                       !.best_target = enode, !.best_cost = cost_u]
        ELSE [s EXCEPT
                !.pq = rest \cup { <<cand(n), n>> : n \in better },
                !.expanded = @ + 1,
                !.dist = [n \in G.segs |->
                            IF n \in better THEN cand(n) ELSE s.dist[n]],
                !.prev = [n \in G.segs |->
                            IF n \in better THEN enode ELSE s.prev[n]]]

RECURSIVE DijkstraLoop(_, _, _, _, _)
DijkstraLoop(G, targets, allow_closed, max_visits, s) ==
    IF s.pq = {} \/ ~s.run THEN s
    ELSE DijkstraLoop(G, targets, allow_closed, max_visits,
                      DijkstraStep(G, targets, allow_closed, max_visits, s))

\* the locals of dijkstra_route when "while pq" is first reached
DijkstraStart(G, seeds) ==
    [pq |-> { <<enode_travel_time(G, e), e>> : e \in seeds },
     dist |-> [n \in G.segs |->
                 IF n \in seeds THEN enode_travel_time(G, n)
                 ELSE Inf],
     prev |-> [n \in G.segs |-> NoSeg],
     expanded |-> 0, run |-> TRUE, capped |-> FALSE,
     best_target |-> NoSeg, best_cost |-> Inf]

\* dijkstra_route
dijkstra_route(G, start_node_id, target_node_id, constraints, allow_closed, max_visits) ==
    LET start_all == enodes_from_start(G, start_node_id)
        target_all == target_nodes(G, target_node_id)
        start_enodes == filter_enodes(G, start_all, constraints)
        target_enodes == filter_enodes(G, target_all, constraints)
        seeds == { e \in start_enodes :
                     ~(~allow_closed /\ is_enode_closed(G, e)) }
        s0 == DijkstraStart(G, seeds)
        s == DijkstraLoop(G, target_enodes, allow_closed, max_visits, s0)
        path_enodes == ChainTo(s.prev, s.best_target)
    IN  IF start_all = {} \/ target_all = {} THEN NullRoute(0)
        ELSE IF s.best_target = NoSeg
        THEN Ended(NullRoute(s.expanded), s.capped)
        ELSE Ended(FoundRoute(path_enodes, s.best_cost, s.expanded), s.capped)

\* ------------------------------------------------------------------- astar
\* math.hypot(dx, 0) / vmax_mps for coordinates at multiples of vmax_mps
heuristic(G, e, tx, vmax_mps) == Abs(G.x[orig_v(e)] - tx) \div vmax_mps

\* One iteration of "while open_heap" of astar_route.
AstarStep(G, targets, tx, vmax_mps, allow_closed, max_visits, s) ==
    LET top == HeapTop3(s.open)
        g == top[2]
        enode == top[3]
        rest == s.open \ {top}
        tentative_g(n) == g + turn_cost(G, enode, n) + enode_travel_time(G, n)
        better == { n \in successors(G, enode) :
                      /\ ~(~allow_closed /\ is_enode_closed(G, n))
                      /\ tentative_g(n) < s.gscore[n] }
    IN  IF max_visits # NoneVal /\ s.expanded >= max_visits
        THEN [s EXCEPT !.open = rest, !.run = FALSE, !.capped = TRUE]
        ELSE IF enode \in s.visited
        THEN [s EXCEPT !.open = rest]
        ELSE IF g > s.gscore[enode]
        THEN [s EXCEPT !.open = rest, !.visited = @ \cup {enode}]
        ELSE IF enode \in targets
        THEN [s EXCEPT !.open = rest, !.visited = @ \cup {enode},
                       !.run = FALSE, !.expanded = @ + 1,
                       !.best_target = enode, !.best_cost = g]
        ELSE [s EXCEPT
                !.open = rest \cup
                    { <<tentative_g(n) + heuristic(G, n, tx, vmax_mps),
                        tentative_g(n), n>> : n \in better },
                !.visited = @ \cup {enode},
                !.expanded = @ + 1,
                !.gscore = [n \in G.segs |->
                              IF n \in better THEN tentative_g(n)
                              ELSE s.gscore[n]],
                !.prev = [n \in G.segs |->
                            IF n \in better THEN enode ELSE s.prev[n]]]

RECURSIVE AstarLoop(_, _, _, _, _, _, _)
AstarLoop(G, targets, tx, vmax_mps, allow_closed, max_visits, s) ==
    IF s.open = {} \/ ~s.run THEN s
    ELSE AstarLoop(G, targets, tx, vmax_mps, allow_closed, max_visits,
             AstarStep(G, targets, tx, vmax_mps, allow_closed, max_visits, s))

\* the locals of astar_route when "while open_heap" is first reached
AstarStart(G, seeds, tx, vmax_mps) ==
    [open |-> { <<enode_travel_time(G, e)
                    + heuristic(G, e, tx, vmax_mps),
                  enode_travel_time(G, e), e>> : e \in seeds },
     gscore |-> [n \in G.segs |->
                   IF n \in seeds THEN enode_travel_time(G, n)
                   ELSE Inf],
     prev |-> [n \in G.segs |-> NoSeg],
     visited |-> {},
     expanded |-> 0, run |-> TRUE, capped |-> FALSE,
     best_target |-> NoSeg, best_cost |-> Inf]

\* astar_route
astar_route(G, start_node_id, target_node_id, constraints, vmax_mps, allow_closed, max_visits) ==
    LET start_all == enodes_from_start(G, start_node_id)
        target_all == target_nodes(G, target_node_id)
        start_enodes == filter_enodes(G, start_all, constraints)
        target_enodes == filter_enodes(G, target_all, constraints)
        sample_target == CHOOSE t \in target_enodes : TRUE
        tx == G.x[orig_v(sample_target)]
        seeds == { e \in start_enodes :
                     ~(~allow_closed /\ is_enode_closed(G, e)) }
        s0 == AstarStart(G, seeds, tx, vmax_mps)
        s == AstarLoop(G, target_enodes, tx, vmax_mps, allow_closed,
                       max_visits, s0)
    IN  IF start_all = {} \/ target_all = {} THEN NullRoute(0)
        ELSE IF target_enodes = {} THEN Raised   \* next(iter(())): StopIteration
        ELSE IF s.best_target = NoSeg
        THEN Ended(NullRoute(s.expanded), s.capped)
        ELSE Ended(FoundRoute(ChainTo(s.prev, s.best_target), s.best_cost,
                              s.expanded), s.capped)

\* ----------------------------------------------------- bidirectional astar
\* a meeting cost under which no meeting is ever an improvement
total_cost_never(g, g_opposite) == Inf

\* a meeting cost that leaves out the opposite frontier's share
total_cost_one_side(g, g_opposite) == g

\* the cost of a meeting candidate: the popped cost plus the cost the opposite
\* frontier has for the same segment
total_cost(g, g_opposite) == g + g_opposite

\* the forward half of one iteration of "while open_fwd and open_bwd";
\* s.stale is TRUE when the half ended by "continue"
BidiForward(G, tx, vmax_mps, allow_closed, s) ==
    LET top == HeapTop3(s.open_fwd)
        g == top[2]
        enode == top[3]
        rest == s.open_fwd \ {top}
        meets == s.g_bwd[enode] # Inf /\ total_cost(g, s.g_bwd[enode]) < s.best_cost
        tentative_g(n) == g + turn_cost(G, enode, n) + enode_travel_time(G, n)
        better == { n \in successors(G, enode) :
                      /\ ~(~allow_closed /\ is_enode_closed(G, n))
                      /\ tentative_g(n) < s.g_fwd[n] }
    IN  IF g > s.g_fwd[enode]
        THEN [s EXCEPT !.open_fwd = rest, !.expanded = @ + 1, !.stale = TRUE]
        ELSE [s EXCEPT
                !.open_fwd = rest \cup
                    { <<tentative_g(n) + heuristic(G, n, tx, vmax_mps),
                        tentative_g(n), n>> : n \in better },
                !.expanded = @ + 1,
                !.stale = FALSE,
                !.best_cost = IF meets THEN total_cost(g, s.g_bwd[enode]) ELSE @,
                !.meeting_node = IF meets THEN enode ELSE @,
                !.g_fwd = [n \in G.segs |->
                             IF n \in better THEN tentative_g(n)
                             ELSE s.g_fwd[n]],
                !.prev_fwd = [n \in G.segs |->
                                IF n \in better THEN enode ELSE s.prev_fwd[n]]]

\* heuristic_backward: from the segment's origin to the start anchor
heuristic_backward(G, e, sx, vmax_mps) == Abs(G.x[orig_u(e)] - sx) \div vmax_mps

\* the backward half of the iteration
BidiBackward(G, sx, vmax_mps, allow_closed, s) ==
    LET top == HeapTop3(s.open_bwd)
        g == top[2]
        enode == top[3]
        rest == s.open_bwd \ {top}
        meets == s.g_fwd[enode] # Inf /\ total_cost(g, s.g_fwd[enode]) < s.best_cost
        tentative_g(n) == g + turn_cost(G, n, enode) + enode_travel_time(G, n)
        better == { n \in predecessors(G, enode) :
                      /\ ~(~allow_closed /\ is_enode_closed(G, n))
                      /\ tentative_g(n) < s.g_bwd[n] }
    IN  IF g > s.g_bwd[enode]
        THEN [s EXCEPT !.open_bwd = rest, !.expanded = @ + 1]
        ELSE [s EXCEPT
                !.open_bwd = rest \cup
                    { <<tentative_g(n) + heuristic_backward(G, n, sx, vmax_mps),
                        tentative_g(n), n>> : n \in better },
                !.expanded = @ + 1,
                !.best_cost = IF meets THEN total_cost(g, s.g_fwd[enode]) ELSE @,
                !.meeting_node = IF meets THEN enode ELSE @,
                !.g_bwd = [n \in G.segs |->
                             IF n \in better THEN tentative_g(n)
                             ELSE s.g_bwd[n]],
                !.prev_bwd = [n \in G.segs |->
                                IF n \in better THEN enode ELSE s.prev_bwd[n]]]

\* "if max_visits and ...": None and 0 both mean no cap
BidiCapped(max_visits, expanded) ==
    max_visits # NoneVal /\ max_visits # 0 /\ expanded >= max_visits

\* One whole iteration of the loop.
BidiStep(G, tx, sx, vmax_mps, allow_closed, max_visits, s) ==
    IF BidiCapped(max_visits, s.expanded)
    THEN [s EXCEPT !.run = FALSE, !.capped = TRUE]
    ELSE LET f == BidiForward(G, tx, vmax_mps, allow_closed, s)
         IN  IF f.stale THEN f
             ELSE BidiBackward(G, sx, vmax_mps, allow_closed, f)

RECURSIVE BidiLoop(_, _, _, _, _, _, _)
BidiLoop(G, tx, sx, vmax_mps, allow_closed, max_visits, s) ==
    IF s.open_fwd = {} \/ s.open_bwd = {} \/ ~s.run THEN s
    ELSE BidiLoop(G, tx, sx, vmax_mps, allow_closed, max_visits,
             BidiStep(G, tx, sx, vmax_mps, allow_closed, max_visits, s))

\* the locals of bidirectional_astar_route when its loop is first reached
BidiStart(G, seeds_fwd, seeds_bwd, tx, sx, vmax_mps) ==
    [open_fwd |-> { <<enode_travel_time(G, e)
                        + heuristic(G, e, tx, vmax_mps),
                      enode_travel_time(G, e), e>> : e \in seeds_fwd },
     open_bwd |-> { <<enode_travel_time(G, e)
                        + heuristic_backward(G, e, sx, vmax_mps),
                      enode_travel_time(G, e), e>> : e \in seeds_bwd },
     g_fwd |-> [n \in G.segs |->
                  IF n \in seeds_fwd THEN enode_travel_time(G, n)
                  ELSE Inf],
     g_bwd |-> [n \in G.segs |->
                  IF n \in seeds_bwd THEN enode_travel_time(G, n)
                  ELSE Inf],
     prev_fwd |-> [n \in G.segs |-> NoSeg],
     prev_bwd |-> [n \in G.segs |-> NoSeg],
     expanded |-> 0, run |-> TRUE, capped |-> FALSE,
     stale |-> FALSE,
     best_cost |-> Inf, meeting_node |-> NoSeg]

\* bidirectional_astar_route
bidirectional_astar_route(G, start_node_id, target_node_id, vmax_mps, allow_closed, constraints, max_visits) ==
    LET start_all == enodes_from_start(G, start_node_id)
        target_all == target_nodes(G, target_node_id)
        start_enodes == filter_enodes(G, start_all, constraints)
        target_enodes == filter_enodes(G, target_all, constraints)
        sample_target == CHOOSE t \in target_enodes : TRUE
        tx == G.x[orig_v(sample_target)]
        sample_start == CHOOSE t \in start_enodes : TRUE
        sx == G.x[orig_u(sample_start)]
        seeds_fwd == { e \in start_enodes :
                         ~(~allow_closed /\ is_enode_closed(G, e)) }
        seeds_bwd == { e \in target_enodes :
                         ~(~allow_closed /\ is_enode_closed(G, e)) }
        s0 == BidiStart(G, seeds_fwd, seeds_bwd, tx, sx, vmax_mps)
        s == BidiLoop(G, tx, sx, vmax_mps, allow_closed, max_visits, s0)
        path_fwd == ChainTo(s.prev_fwd, s.meeting_node)
        path_bwd == ChainFrom(s.prev_bwd, s.prev_bwd[s.meeting_node])
    IN  IF start_all = {} \/ target_all = {} THEN NullRoute(0)
        ELSE IF target_enodes = {} \/ start_enodes = {} THEN Raised
        ELSE IF s.meeting_node = NoSeg
        THEN Ended(NullRoute(s.expanded), s.capped)
        ELSE Ended(FoundRoute(path_fwd \o path_bwd, s.best_cost, s.expanded),
                   s.capped)

\* ------------------------------------------------------------------ planner
\* _run_search: best_route, or NoRoute for Python's None
NoRoute == [route_nodes |-> <<>>, route_enodes |-> <<>>, cost |-> Inf,
            expanded |-> 0, raised |-> FALSE, capped |-> FALSE, none |-> TRUE]

SomeRoute(r) == [route_nodes |-> r.route_nodes, route_enodes |-> r.route_enodes,
                 cost |-> r.cost, expanded |-> r.expanded,
                 raised |-> r.raised, capped |-> r.capped, none |-> FALSE]

\* routes_found, in the order the dict is filled and iterated
routes_found(G, start_node, target_node, allow_closed) ==
    << dijkstra_route(G, start_node, target_node, NoConstraints,
                      allow_closed, NoneVal),
       astar_route(G, start_node, target_node, NoConstraints, Vmax,
                   allow_closed, NoneVal),
       bidirectional_astar_route(G, start_node, target_node, Vmax,
                                 allow_closed, NoConstraints, NoneVal) >>

\* a selection that keeps the last route found, whatever its travel time
RECURSIVE SelectLast(_, _, _, _, _)
SelectLast(G, routes, i, best_route, best_time) ==
    IF i > Len(routes) THEN best_route
    ELSE LET total_time == compute_route_tt(G, routes[i].route_enodes)
         IN  IF total_time < Inf
             THEN SelectLast(G, routes, i + 1, SomeRoute(routes[i]), total_time)
             ELSE SelectLast(G, routes, i + 1, best_route, best_time)

\* the selection loop: the first route whose travel time is below all before it
RECURSIVE SelectBest(_, _, _, _, _)
SelectBest(G, routes, i, best_route, best_time) ==
    IF i > Len(routes) THEN best_route
    ELSE LET total_time == compute_route_tt(G, routes[i].route_enodes)
         IN  IF total_time < best_time
             THEN SelectBest(G, routes, i + 1, SomeRoute(routes[i]), total_time)
             ELSE SelectBest(G, routes, i + 1, best_route, best_time)

_run_search(G, start_node, target_node, allow_closed) ==
    SelectBest(G, routes_found(G, start_node, target_node, allow_closed), 1,
               NoRoute, Inf)

\* the record _plan_route returns at a valid level
PlanResult(G_work, res, start_node, target_node, vehicle_type, level, constraints, valid, penalty) ==
    [start_node |-> start_node, target_node |-> target_node,
     route_nodes |-> res.route_nodes, route_enodes |-> res.route_enodes,
     cost |-> penalty, expanded_nodes |-> res.expanded,
     valid |-> valid, penalty |-> penalty,
     total_time |-> compute_route_tt(G_work, res.route_enodes),
     vehicle_type |-> vehicle_type, relax_level |-> level,
     constraints_used |-> constraints]

\* the locals of an attempt before "EG_work = EG.copy()": mult is the traffic
\* multiplier of each segment of the copy, todo the segments not yet copied
NoWork ==
    [mult |-> <<>>, todo |-> <<>>, res |-> NoRoute, valid |-> FALSE,
     penalty |-> Inf]

\* the record _plan_route returns after the last level
Infeasible(start_node, target_node, vehicle_type) ==
    [start_node |-> start_node, target_node |-> target_node,
     route_nodes |-> <<>>, route_enodes |-> <<>>,
     cost |-> Inf, expanded_nodes |-> 0,
     valid |-> FALSE, penalty |-> Inf, total_time |-> Inf,
     vehicle_type |-> vehicle_type, relax_level |-> NoneVal,
     constraints_used |-> NoConstraints]

\* ============================================================ state machine
VARIABLES
    EG,        \* the base edge graph
    req,       \* the request at hand: start, target, allow_closed
    out,       \* what the last search call returned: [alg, res]
    plan,      \* the _plan_route call in progress, or its outcome
    work,      \* the working copy EG_work of the attempt in progress
    traffic    \* the apply_traffic_to_graph call in progress

vars == <<EG, req, out, plan, work, traffic>>

\* -------------------------------------------------------- the road network
\* Original nodes 1..5.  Two ways lead from 1 to 3 (direct, and through 2),
\* then 3 -> 4 -> 5.
Nodes == 1..5
SearchSegs == { <<1,2,0>>, <<1,3,0>>, <<2,3,0>>, <<3,4,0>>, <<4,5,0>> }

\* GraphConstructor._construct_edge_graph: a transition joins (u, v, k) to
\* every (v, w, k2)
TransitionsOf(segs) == { t \in segs \X segs : t[1][2] = t[2][1] }

\* node layouts: every node at the origin (the heuristic is zero), or node 2
\* set apart from the rest
Layouts ==
    { [n \in Nodes |-> 0],
      [n \in Nodes |-> IF n = 2 THEN 2 * Vmax ELSE 0] }

RECURSIVE SumOver(_, _)
SumOver(f, S) ==
    IF S = {} THEN 0
    ELSE LET e == CHOOSE e \in S : TRUE IN f[e] + SumOver(f, S \ {e})

SearchTimes ==
    { tt \in [SearchSegs -> 0..MaxTT] : SumOver(tt, SearchSegs) <= MaxTotal }

ClosedChoices(segs) ==
    { c \in [segs -> {"True", "False"}] :
        Cardinality({ e \in segs : c[e] = "True" }) <= MaxClosed }

\* a graph as the loader hands it over: multiplier 1, penalty 0, two lanes,
\* no bridge, no tunnel, a preferred road class
PlainGraph(segs, tt, closed, turn, x) ==
    [segs |-> segs, travel_time |-> tt,
     traffic_mult |-> [e \in segs |-> 1],
     penalty |-> [e \in segs |-> 0],
     closed |-> closed,
     turn_cost |-> [t \in TransitionsOf(segs) |-> turn],
     x |-> x,
     lanes |-> [e \in segs |-> NoneVal],
     bridge |-> [e \in segs |-> "no"],
     tunnel |-> [e \in segs |-> "no"],
     maxheight |-> [e \in segs |-> NoneVal],
     maxweight |-> [e \in segs |-> NoneVal],
     highway |-> [e \in segs |-> "primary"]]

NoOut == [alg |-> "none", res |-> NullRoute(0)]

\* plan.pc: "idle" before a call, "loop" inside "for level in range(...)",
\* "returned" and "raised" after it; plan.error names the exception raised.
\* plan.attempts lists what each level tried: the level, the route
\* _run_search selected, the verdict.
NoPlan ==
    [pc |-> "idle", error |-> "none", vehicle_type |-> "none",
     start |-> 0, target |-> 0,
     max_relax_level |-> 0, level |-> 0, closed |-> FALSE,
     attempts |-> <<>>, result |-> Infeasible(0, 0, "none")]

\* no apply_traffic_to_graph call yet; calls counts the calls begun
NoTraffic == [pc |-> "idle", data |-> <<>>, todo |-> <<>>, calls |-> 0]

\* requests <<start, target, allow_closed>>: one target segment, two target
\* segments, and a start node no segment leaves
Requests == { <<1, 5, FALSE>>, <<1, 5, TRUE>>, <<1, 3, FALSE>>, <<5, 1, FALSE>> }

InitSearch ==
    /\ \E tt \in SearchTimes, c \in ClosedChoices(SearchSegs),
          x \in Layouts, turn \in 0..MaxTurn :
          EG = PlainGraph(SearchSegs, tt, c, turn, x)
    /\ \E r \in Requests :
          req = [start |-> r[1], target |-> r[2], allow_closed |-> r[3]]
    /\ out = NoOut
    /\ plan = NoPlan
    /\ work = NoWork
    /\ traffic = NoTraffic

CallDijkstra ==
    /\ out = NoOut
    /\ out' = [alg |-> "dijkstra",
               res |-> dijkstra_route(EG, req.start, req.target, NoConstraints,
                                      req.allow_closed, NoneVal)]
    /\ UNCHANGED <<EG, req, plan, work, traffic>>

CallAstar ==
    /\ out = NoOut
    /\ out' = [alg |-> "astar",
               res |-> astar_route(EG, req.start, req.target, NoConstraints,
                                   Vmax, req.allow_closed, NoneVal)]
    /\ UNCHANGED <<EG, req, plan, work, traffic>>

CallBidirectional ==
    /\ out = NoOut
    /\ out' = [alg |-> "bidirectional_astar",
               res |-> bidirectional_astar_route(EG, req.start, req.target,
                           Vmax, req.allow_closed, NoConstraints, NoneVal)]
    /\ UNCHANGED <<EG, req, plan, work, traffic>>

CallRunSearch ==
    /\ out = NoOut
    /\ out' = [alg |-> "run_search",
               res |-> _run_search(EG, req.start, req.target, req.allow_closed)]
    /\ UNCHANGED <<EG, req, plan, work, traffic>>

NextSearch == CallDijkstra \/ CallAstar \/ CallBidirectional \/ CallRunSearch

SpecSearch == InitSearch /\ [][NextSearch]_vars

\* ------------------------------------------------------------ planner steps
\* The diamond: 1 -> 2 -> 4 (branch A) and 1 -> 3 -> 4 (branch B).
PlanSegs == { <<1,2,0>>, <<2,4,0>>, <<1,3,0>>, <<3,4,0>> }
BranchA == { <<1,2,0>>, <<2,4,0>> }
BranchB == { <<1,3,0>>, <<3,4,0>> }

\* the first segment of each branch carries the varying travel time
PlanTimes ==
    { [e \in PlanSegs |-> IF e = <<1,2,0>> THEN a
                          ELSE IF e = <<1,3,0>> THEN b ELSE 1] :
        a \in 0..MaxTT, b \in 0..MaxTT }

\* a segment is plain, narrow (one lane) or a bridge of undeclared height
Kinds(segs) ==
    { k \in [segs -> {"plain", "narrow", "bridge"}] :
        Cardinality({ e \in segs : k[e] # "plain" }) <= MaxSpecial }

PlanGraph(tt, closed, kind) ==
    [PlainGraph(PlanSegs, tt, closed, 0, [n \in Nodes |-> 0]) EXCEPT
        !.lanes = [e \in PlanSegs |-> IF kind[e] = "narrow" THEN 1 ELSE NoneVal],
        !.bridge = [e \in PlanSegs |-> IF kind[e] = "bridge" THEN "yes" ELSE "no"]]

PlanRequests == { <<1, 4>>, <<2, 3>>, <<4, 1>> }
RelaxLevels == {2, 3}

InitPlan ==
    /\ \E tt \in PlanTimes, c \in ClosedChoices(PlanSegs), k \in Kinds(PlanSegs) :
          EG = PlanGraph(tt, c, k)
    /\ req = [start |-> 0, target |-> 0, allow_closed |-> FALSE]
    /\ out = NoOut
    /\ plan = NoPlan
    /\ work = NoWork
    /\ traffic = NoTraffic

\* a vehicle type that is no key of VEHICLE_PROFILES
UnknownVehicle == "tank"
CallVehicles == VehicleTypes \cup {UnknownVehicle}

\* _plan_route, up to the loop: first the lookup of the profile's
\* avoid_closed, then the test for an unknown vehicle type
PlanCall(vehicle_type, start_node, target_node, max_relax_level) ==
    /\ plan.pc = "idle"
    /\ \E call \in {[NoPlan EXCEPT
                  !.vehicle_type = vehicle_type,
                  !.start = start_node, !.target = target_node,
                  !.max_relax_level = max_relax_level, !.level = 0]} :
          IF vehicle_type \notin DOMAIN VEHICLE_PROFILES
          THEN \* VEHICLE_PROFILES[vehicle_type]: KeyError
               plan' = [call EXCEPT !.pc = "raised", !.error = "KeyError"]
          ELSE IF vehicle_type \notin DOMAIN VEHICLE_PROFILES
          THEN \* raise ValueError("Unknown vehicle type: ...")
               plan' = [call EXCEPT !.pc = "raised", !.error = "ValueError"]
          ELSE plan' = [call EXCEPT
                  !.pc = "loop",
                  !.closed = VEHICLE_PROFILES[vehicle_type]["avoid_closed"]]
    /\ UNCHANGED <<EG, req, out, work, traffic>>

\* a variant that lets closed segments in from level 1 on
AllowClosedFromLevelOne(level) == level > 0

\* the allow_closed argument the attempt at a level hands to _run_search:
\* _closed, read once before the loop
AllowClosedAt(level) == plan.closed

\* one pass of "for level in range(0, max_relax_level + 1)", and the return
\* after the last pass
PlanAttempt ==
    /\ plan.pc = "loop"
    /\ \E level \in {plan.level}, EG_work \in {EG} :
       \E constraints \in {relax_constraints(VEHICLE_PROFILES[plan.vehicle_type], level)},
          res \in {_run_search(EG_work, plan.start, plan.target,
                               AllowClosedAt(level))} :
       \E v \in {validate_route(EG_work, res.route_enodes, constraints)} :
       \E attempt \in {[level |-> level, none |-> res.none,
                        route_enodes |-> res.route_enodes,
                        allow_closed |-> AllowClosedAt(level),
                        valid |-> v[1]]} :
          IF res.none
          THEN \* res.get(...) on None: AttributeError
               plan' = [plan EXCEPT !.pc = "raised",
                                    !.error = "AttributeError",
                                    !.attempts = Append(@, attempt)]
          ELSE IF v[1]
          THEN plan' = [plan EXCEPT
                   !.pc = "returned",
                   !.attempts = Append(@, attempt),
                   !.result = PlanResult(EG_work, res, plan.start, plan.target,
                                         plan.vehicle_type, level, constraints,
                                         v[1], v[2])]
          ELSE IF level < plan.max_relax_level
          THEN plan' = [plan EXCEPT !.level = level + 1,
                                    !.attempts = Append(@, attempt)]
          ELSE plan' = [plan EXCEPT
                   !.pc = "returned",
                   !.attempts = Append(@, attempt),
                   !.result = Infeasible(plan.start, plan.target,
                                         plan.vehicle_type)]
    /\ UNCHANGED <<EG, req, out, work, traffic>>

NextPlan ==
    \/ \E vt \in CallVehicles, r \in PlanRequests, m \in RelaxLevels :
          PlanCall(vt, r[1], r[2], m)
    \/ PlanAttempt

SpecPlan == InitPlan /\ [][NextPlan]_vars

\* ------------------------------------------- searches with their options
\* The three searches called with a constraint filter and an expansion cap,
\* on the diamond with no segment closed.
OptionRequests == { <<1, 4>>, <<2, 4>>, <<1, 2>>, <<4, 1>> }

\* the constraint argument: None, or the profile of a vehicle
ConstraintNames == {"none", "ambulance", "fire_engine"}
ConstraintsOf(name) ==
    IF name = "none" THEN NoConstraints ELSE VEHICLE_PROFILES[name]

\* max_visits: None, or a number
VisitCaps == {NoneVal} \cup 0..MaxVisits

InitOptions ==
    /\ \E tt \in PlanTimes, k \in Kinds(PlanSegs) :
          EG = PlanGraph(tt, [e \in PlanSegs |-> "False"], k)
    /\ \E r \in OptionRequests, c \in ConstraintNames, m \in VisitCaps :
          req = [start |-> r[1], target |-> r[2], allow_closed |-> FALSE,
                 constraints |-> c, max_visits |-> m]
    /\ out = NoOut
    /\ plan = NoPlan
    /\ work = NoWork
    /\ traffic = NoTraffic

OptDijkstra ==
    /\ out = NoOut
    /\ out' = [alg |-> "dijkstra",
               res |-> dijkstra_route(EG, req.start, req.target,
                           ConstraintsOf(req.constraints), req.allow_closed,
                           req.max_visits)]
    /\ UNCHANGED <<EG, req, plan, work, traffic>>

OptAstar ==
    /\ out = NoOut
    /\ out' = [alg |-> "astar",
               res |-> astar_route(EG, req.start, req.target,
                           ConstraintsOf(req.constraints), Vmax,
                           req.allow_closed, req.max_visits)]
    /\ UNCHANGED <<EG, req, plan, work, traffic>>

OptBidirectional ==
    /\ out = NoOut
    /\ out' = [alg |-> "bidirectional_astar",
               res |-> bidirectional_astar_route(EG, req.start, req.target,
                           Vmax, req.allow_closed,
                           ConstraintsOf(req.constraints), req.max_visits)]
    /\ UNCHANGED <<EG, req, plan, work, traffic>>

NextOptions == OptDijkstra \/ OptAstar \/ OptBidirectional

SpecOptions == InitOptions /\ [][NextOptions]_vars

\* ------------------------------------------- planning under live traffic
\* One _plan_route call runs while apply_traffic_to_graph calls rewrite the
\* traffic multipliers of the same base graph (the reroute threads of
\* main.py).  Two parallel segments (1,2,0) and (1,2,1) lead to the one-lane
\* segment (2,3,0).  Neither EG.copy() nor the loop of apply_traffic_to_graph
\* is atomic: each handles one segment per step.
TrafficSegs == { <<1,2,0>>, <<1,2,1>>, <<2,3,0>> }

\* "for en in EG.nodes": the order the segments were added in
TrafficOrder == << <<1,2,0>>, <<1,2,1>>, <<2,3,0>> >>

Mults == {1, 2}
TrafficData == [TrafficSegs -> Mults]

TrafficGraph ==
    [PlainGraph(TrafficSegs,
                [e \in TrafficSegs |-> IF e = <<1,2,0>> THEN 2
                                       ELSE IF e = <<1,2,1>> THEN 3 ELSE 1],
                [e \in TrafficSegs |-> "False"], 0, [n \in Nodes |-> 0])
     EXCEPT !.lanes = [e \in TrafficSegs |->
                         IF e = <<2,3,0>> THEN 1 ELSE NoneVal]]

RouteRequests == { <<1, 3>>, <<3, 1>> }
RouteVehicles == {"ambulance", "fire_engine"}
RouteLevels == {1, 2}

InitTraffic ==
    /\ EG = TrafficGraph
    /\ req = [start |-> 0, target |-> 0, allow_closed |-> FALSE]
    /\ out = NoOut
    /\ plan = NoPlan
    /\ work = NoWork
    /\ traffic = NoTraffic

\* apply_traffic_to_graph is called with the multipliers of a simulation
TrafficCall(traffic_data) ==
    /\ traffic.pc = "idle"
    /\ traffic.calls < MaxApplies
    /\ traffic' = [pc |-> "apply", data |-> traffic_data,
                   todo |-> TrafficOrder, calls |-> traffic.calls + 1]
    /\ UNCHANGED <<EG, req, out, plan, work>>

\* one pass of "for en in EG.nodes": EG.nodes[en]["traffic_mult"] = ...
TrafficWrite ==
    /\ traffic.pc = "apply"
    /\ \E en \in {Head(traffic.todo)} :
          EG' = [EG EXCEPT !.traffic_mult[en] = traffic.data[en]]
    /\ traffic' = [traffic EXCEPT
                     !.todo = Tail(@),
                     !.pc = IF Len(traffic.todo) = 1 THEN "idle" ELSE "apply"]
    /\ UNCHANGED <<req, out, plan, work>>

\* the locals of an attempt at "EG_work = EG.copy()": nothing copied yet
FreshWork ==
    [NoWork EXCEPT !.mult = [e \in TrafficSegs |-> 0], !.todo = TrafficOrder]

\* the working copy as far as it has been made
EG_work == [EG EXCEPT !.traffic_mult = work.mult]

\* _plan_route up to the first "EG_work = EG.copy()"
RouteCall(vehicle_type, start_node, target_node, max_relax_level) ==
    /\ plan.pc = "idle"
    /\ plan' = [NoPlan EXCEPT
                  !.pc = "copy", !.vehicle_type = vehicle_type,
                  !.start = start_node, !.target = target_node,
                  !.max_relax_level = max_relax_level, !.level = 0,
                  !.closed = VEHICLE_PROFILES[vehicle_type]["avoid_closed"]]
    /\ work' = FreshWork
    /\ UNCHANGED <<EG, req, out, traffic>>

\* a copy step that clears the base graph's multiplier as it takes it
PlanCopyMoving ==
    /\ plan.pc = "copy"
    /\ \E en \in {Head(work.todo)} :
          /\ work' = [work EXCEPT !.mult[en] = EG.traffic_mult[en],
                                  !.todo = Tail(@)]
          /\ EG' = [EG EXCEPT !.traffic_mult[en] = 1]
    /\ plan' = [plan EXCEPT
                  !.pc = IF Len(work.todo) = 1 THEN "search" ELSE "copy"]
    /\ UNCHANGED <<req, out, traffic>>

\* EG.copy(), one segment's attribute dict at a time
PlanCopy ==
    /\ plan.pc = "copy"
    /\ \E en \in {Head(work.todo)} :
          work' = [work EXCEPT !.mult[en] = EG.traffic_mult[en],
                               !.todo = Tail(@)]
    /\ plan' = [plan EXCEPT
                  !.pc = IF Len(work.todo) = 1 THEN "search" ELSE "copy"]
    /\ UNCHANGED <<EG, req, out, traffic>>

\* what an attempt leaves in plan.attempts
AttemptRecord(none, total_time) ==
    [level |-> plan.level, none |-> none,
     route_enodes |-> work.res.route_enodes,
     allow_closed |-> plan.closed, valid |-> work.valid,
     mult |-> work.mult, total_time |-> total_time]

\* res = _run_search(EG_work, ...) and the test of res
PlanSearch ==
    /\ plan.pc = "search"
    /\ \E res \in {_run_search(EG_work, plan.start, plan.target, plan.closed)} :
          /\ work' = [work EXCEPT !.res = res]
          /\ IF res.none
             THEN plan' = [plan EXCEPT
                      !.pc = "raised", !.error = "AttributeError",
                      !.attempts = Append(@,
                          [AttemptRecord(TRUE, Inf) EXCEPT
                              !.route_enodes = <<>>])]
             ELSE plan' = [plan EXCEPT !.pc = "validate"]
    /\ UNCHANGED <<EG, req, out, traffic>>

\* valid, penalty = validate_route(EG_work, res["route_enodes"], constraints)
PlanValidate ==
    /\ plan.pc = "validate"
    /\ \E v \in {validate_route(EG_work, work.res.route_enodes,
                    relax_constraints(VEHICLE_PROFILES[plan.vehicle_type],
                                      plan.level))} :
          work' = [work EXCEPT !.valid = v[1], !.penalty = v[2]]
    /\ plan' = [plan EXCEPT !.pc = "time"]
    /\ UNCHANGED <<EG, req, out, traffic>>

\* res["total_time"] = compute_route_tt(G, ...) and the end of the pass: return
\* when valid, else the next level or the sentinel
TimeStep(G) ==
    /\ plan.pc = "time"
    /\ \E attempt \in {AttemptRecord(FALSE,
                          compute_route_tt(G, work.res.route_enodes))} :
          IF work.valid
          THEN /\ plan' = [plan EXCEPT
                      !.pc = "returned",
                      !.attempts = Append(@, attempt),
                      !.result = PlanResult(G, work.res, plan.start,
                          plan.target, plan.vehicle_type, plan.level,
                          relax_constraints(
                              VEHICLE_PROFILES[plan.vehicle_type], plan.level),
                          work.valid, work.penalty)]
               /\ work' = work
          ELSE IF plan.level < plan.max_relax_level
          THEN /\ plan' = [plan EXCEPT !.pc = "copy", !.level = @ + 1,
                                       !.attempts = Append(@, attempt)]
               /\ work' = FreshWork
          ELSE /\ plan' = [plan EXCEPT
                      !.pc = "returned",
                      !.attempts = Append(@, attempt),
                      !.result = Infeasible(plan.start, plan.target,
                                            plan.vehicle_type)]
               /\ work' = work
    /\ UNCHANGED <<EG, req, out, traffic>>

\* a total_time taken from the base graph as it is by then
PlanTotalTimeOnBase == TimeStep(EG)

PlanTotalTime == TimeStep(EG_work)

NextTraffic ==
    \/ \E traffic_data \in TrafficData : TrafficCall(traffic_data)
    \/ TrafficWrite
    \/ \E vt \in RouteVehicles, r \in RouteRequests, m \in RouteLevels :
          RouteCall(vt, r[1], r[2], m)
    \/ PlanCopy
    \/ PlanSearch
    \/ PlanValidate
    \/ PlanTotalTime

SpecTraffic == InitTraffic /\ [][NextTraffic]_vars

\* ------------------------------------------------ the constraint engine
\* relax_constraints, validate_single_edge and validate_route called on their
\* own.  The graph has two segments: the attributes of the first are drawn
\* freely, the second is one of a few kinds.
FirstSeg == <<1,2,0>>
SecondSeg == <<2,3,0>>
CheckSegs == {FirstSeg, SecondSeg}

\* attribute dicts; NoneVal and "Absent" stand for a key the dict does not have
SegAttrs ==
    [bridge : {"no", "yes"}, tunnel : {"no", "yes"},
     maxheight : {NoneVal, Unparsable, 30, 48},
     maxweight : {NoneVal, Unparsable, 30, 100},
     lanes : {NoneVal, Unparsable, 1, 3}, closed : {"True", "False", "Absent"},
     highway : {"primary", "track"}]

PlainAttrs ==
    [bridge |-> "no", tunnel |-> "no", maxheight |-> NoneVal,
     maxweight |-> NoneVal, lanes |-> NoneVal, closed |-> "False",
     highway |-> "primary"]

SecondAttrs ==
    { PlainAttrs,
      [PlainAttrs EXCEPT !.lanes = 1, !.closed = "True"],
      [PlainAttrs EXCEPT !.bridge = "yes", !.maxheight = 30, !.maxweight = 30] }

CheckGraph(a1, a2) ==
    LET a == [e \in CheckSegs |-> IF e = FirstSeg THEN a1 ELSE a2]
    IN  [PlainGraph(CheckSegs, [e \in CheckSegs |-> 1],
                    [e \in CheckSegs |-> a[e].closed], 0, [n \in Nodes |-> 0])
         EXCEPT !.bridge = [e \in CheckSegs |-> a[e].bridge],
                !.tunnel = [e \in CheckSegs |-> a[e].tunnel],
                !.maxheight = [e \in CheckSegs |-> a[e].maxheight],
                !.maxweight = [e \in CheckSegs |-> a[e].maxweight],
                !.lanes = [e \in CheckSegs |-> a[e].lanes],
                !.highway = [e \in CheckSegs |-> a[e].highway]]

\* the constraint dicts handed in: the three profiles, a dict that lacks some
\* of their keys, and three dicts that hold a height limit and nothing else
HeightLimits == [height_2_5 |-> 25, height_3_5 |-> 35, height_4_0 |-> 40]
ProfileNames == VehicleTypes \cup {"crane"} \cup DOMAIN HeightLimits
InputProfile(name) ==
    CASE name \in DOMAIN HeightLimits -> [max_height |-> HeightLimits[name]]
      [] name = "crane" ->
            [max_height |-> 47, max_weight |-> 350, min_lanes |-> 3,
             avoid_closed |-> TRUE, road_type |-> {"primary"}]
      [] OTHER -> VEHICLE_PROFILES[name]

CheckRoutes ==
    { <<>>, <<FirstSeg>>, <<FirstSeg, SecondSeg>>,
      <<SecondSeg, FirstSeg, SecondSeg>> }

\* req.base is the dict object the caller holds, req.level the level asked for
InitCheck ==
    /\ \E a1 \in SegAttrs, a2 \in SecondAttrs : EG = CheckGraph(a1, a2)
    /\ \E name \in ProfileNames, level \in 0..MaxLevel :
          req = [profile |-> name, base |-> InputProfile(name), level |-> level,
                 route |-> <<>>]
    /\ out = NoOut
    /\ plan = NoPlan
    /\ work = NoWork
    /\ traffic = NoTraffic

\* a variant that makes the removals on the dict it was given
CallRelaxInPlace ==
    /\ out = NoOut
    /\ out' = [alg |-> "relax_constraints",
               res |-> relax_constraints(req.base, req.level)]
    /\ req' = [req EXCEPT !.base = relax_constraints(req.base, req.level)]
    /\ UNCHANGED <<EG, plan, work, traffic>>

\* relax_constraints(base, level): the pops are made on a deepcopy, base is
\* left as it is
CallRelax ==
    /\ out = NoOut
    /\ out' = [alg |-> "relax_constraints",
               res |-> relax_constraints(req.base, req.level)]
    /\ UNCHANGED <<EG, req, plan, work, traffic>>

\* validate_single_edge on the first segment, under the relaxed constraints
CallValidateEdge ==
    /\ out = NoOut
    /\ out' = [alg |-> "validate_single_edge",
               res |-> validate_single_edge(EG, FirstSeg,
                           relax_constraints(req.base, req.level))]
    /\ UNCHANGED <<EG, req, plan, work, traffic>>

\* validate_route on a route, under the relaxed constraints
CallValidateRoute(route_enodes) ==
    /\ out = NoOut
    /\ out' = [alg |-> "validate_route",
               res |-> validate_route(EG, route_enodes,
                           relax_constraints(req.base, req.level))]
    /\ req' = [req EXCEPT !.route = route_enodes]
    /\ UNCHANGED <<EG, plan, work, traffic>>

NextCheck ==
    \/ CallRelax
    \/ CallValidateEdge
    \/ \E route_enodes \in CheckRoutes : CallValidateRoute(route_enodes)

SpecCheck == InitCheck /\ [][NextCheck]_vars

\* ------------------------------------------------- building the edge graph
\* GraphConstructor._construct_edge_graph on a small node graph GP: node 2
\* sits in the middle of a 3 x 3 grid and nodes 1, 3 and 4 on the ring around
\* it, so every road of GP points in one of the eight compass directions.
\* Turn costs are counted in half seconds (left_turn_mult 1.5 is 3 halves).
Centre == <<1, 1>>
Ring == { p \in (0..2) \X (0..2) : p # Centre }
RoadNodes == 1..4
Roads == { <<1,2,0>>, <<3,2,0>>, <<2,3,0>>, <<2,4,0>> }
NodePositions ==
    { pos \in [RoadNodes -> Ring \cup {Centre}] :
        /\ pos[2] = Centre
        /\ \A n \in RoadNodes \ {2} : pos[n] \in Ring
        /\ \A n, m \in RoadNodes : n # m => pos[n] # pos[m] }
LeftTurnMults == {3, 4}      \* 1.5 (the default) and 2.0

Minus(p, q) == <<p[1] - q[1], p[2] - q[2]>>
Dot(a, b) == a[1] * b[1] + a[2] * b[2]
Cross(a, b) == a[1] * b[2] - a[2] * b[1]

\* math.degrees(math.acos(cos_angle)) / 45 for two vectors that are not zero
\* and point in compass directions: 0, 45, 90, 135 or 180 degrees
AngleUnits(a, b) ==
    IF Cross(a, b) = 0 THEN (IF Dot(a, b) > 0 THEN 0 ELSE 4)
    ELSE IF Dot(a, b) = 0 THEN 2
    ELSE IF Dot(a, b) > 0 THEN 1 ELSE 3

\* the body of the loop over the transitions, for from_enode and to_enode;
\* u_x, u_y of a segment are its origin's position, v_x, v_y its destination's
TurnCostOf(pos, from_enode, to_enode, left_turn_mult, base_turn_penalty) ==
    LET vec_in == Minus(pos[orig_v(from_enode)], pos[orig_u(from_enode)])
        vec_out == Minus(pos[orig_v(from_enode)], pos[orig_u(to_enode)])
        angle == IF Dot(vec_in, vec_in) = 0 \/ Dot(vec_out, vec_out) = 0
                 THEN 0 ELSE AngleUnits(vec_in, vec_out)
        is_left == Cross(vec_in, vec_out) > 0
        multiplier == IF is_left THEN left_turn_mult ELSE 2
    IN  base_turn_penalty * (1 + angle) * multiplier

EmptyGraph ==
    [segs |-> {}, pos |-> <<>>, orig_u |-> <<>>, orig_v |-> <<>>,
     turn_cost |-> <<>>]

\* the edge-routes handed to the conversions: sequences of segments
RECURSIVE RoutesOfLen(_)
RoutesOfLen(n) ==
    IF n = 0 THEN {<<>>}
    ELSE { Append(r, e) : r \in RoutesOfLen(n - 1), e \in Roads }
EdgeRoutes == UNION { RoutesOfLen(n) : n \in 0..MaxRoute }

\* a variant that also takes the origin of every segment after the first
convert_with_every_origin(G, edge_route) ==
    IF edge_route = <<>> THEN <<>>
    ELSE [i \in 1..(2 * Len(edge_route)) |->
            IF i % 2 = 1 THEN G.orig_u[edge_route[(i + 1) \div 2]]
            ELSE G.orig_v[edge_route[i \div 2]]]

\* visualisation.convert_edge_route_to_node_route: reads the orig_u and orig_v
\* attributes of the graph's segments
convert_edge_route_to_node_route(G, edge_route) ==
    IF edge_route = <<>> THEN <<>>
    ELSE <<G.orig_u[edge_route[1]]>> \o
         [i \in 1..Len(edge_route) |-> G.orig_v[edge_route[i]]]

\* req is the call: the node graph and the two parameters
InitBuild ==
    /\ \E pos \in NodePositions, m \in LeftTurnMults, b \in 1..MaxBase :
          req = [pos |-> pos, roads |-> Roads, left_turn_mult |-> m,
                 base_turn_penalty |-> b, edge_route |-> <<>>]
    /\ EG = EmptyGraph
    /\ out = NoOut
    /\ plan = NoPlan
    /\ work = NoWork
    /\ traffic = NoTraffic

\* _construct_edge_graph: one segment per road, one transition from (u, v, k)
\* to every (v, w, k2)
ConstructEdgeGraph ==
    /\ EG = EmptyGraph
    /\ EG' = [segs |-> req.roads, pos |-> req.pos,
              orig_u |-> [e \in req.roads |-> e[1]],
              orig_v |-> [e \in req.roads |-> e[2]],
              turn_cost |-> [t \in TransitionsOf(req.roads) |->
                                TurnCostOf(req.pos, t[1], t[2],
                                           req.left_turn_mult,
                                           req.base_turn_penalty)]]
    /\ UNCHANGED <<req, out, plan, work, traffic>>

\* an edge-route is converted twice: as the searches do it inline, and by
\* convert_edge_route_to_node_route on the built graph
ConvertRoute(edge_route) ==
    /\ EG # EmptyGraph
    /\ out = NoOut
    /\ req' = [req EXCEPT !.edge_route = edge_route]
    /\ out' = [alg |-> "convert",
               res |-> [inline |-> route_nodes_of(edge_route),
                        node_route |->
                            convert_edge_route_to_node_route(EG, edge_route)]]
    /\ UNCHANGED <<EG, plan, work, traffic>>

NextBuild ==
    \/ ConstructEdgeGraph
    \/ \E edge_route \in EdgeRoutes : ConvertRoute(edge_route)

SpecBuild == InitBuild /\ [][NextBuild]_vars

\* -------------------------------------------------- applying traffic data
\* apply_traffic_to_graph called on its own, with mappings that name some of
\* the graph's segments and possibly a segment the graph does not have.
\* An id string "u-v-k" is the tuple of its parts.
_edge_id_str(enode) == <<enode[1], "-", enode[2], "-", enode[3]>>

ForeignSeg == <<3,1,0>>
ApplyIds == { _edge_id_str(en) : en \in TrafficSegs \cup {ForeignSeg} }
ApplyMults == 1..3
ApplyData == UNION { [K -> ApplyMults] : K \in SUBSET ApplyIds }

\* a variant of the loop body that resets the segments the mapping leaves out
ApplyPassReset(G, en, traffic_data) ==
    IF _edge_id_str(en) \in DOMAIN traffic_data
    THEN [G EXCEPT !.traffic_mult[en] = traffic_data[_edge_id_str(en)]]
    ELSE [G EXCEPT !.traffic_mult[en] = 1]

\* one pass of "for en in EG.nodes"
ApplyPass(G, en, traffic_data) ==
    IF _edge_id_str(en) \in DOMAIN traffic_data
    THEN [G EXCEPT !.traffic_mult[en] = traffic_data[_edge_id_str(en)]]
    ELSE G

\* constraints.apply_traffic_to_graph: the passes in the order of EG.nodes
RECURSIVE ApplyLoop(_, _, _)
ApplyLoop(G, todo, traffic_data) ==
    IF todo = <<>> THEN G
    ELSE ApplyLoop(ApplyPass(G, Head(todo), traffic_data), Tail(todo),
                   traffic_data)

apply_traffic_to_graph(G, traffic_data) ==
    ApplyLoop(G, TrafficOrder, traffic_data)

\* work.before is the graph as it was when the last call began
InitApply ==
    /\ \E m \in [TrafficSegs -> ApplyMults] :
          EG = [TrafficGraph EXCEPT !.traffic_mult = m]
    /\ work = [before |-> TrafficGraph]
    /\ req = NoneVal
    /\ out = NoOut
    /\ plan = NoPlan
    /\ traffic = NoTraffic

ApplyTraffic(traffic_data) ==
    /\ traffic.calls < MaxApplies
    /\ EG' = apply_traffic_to_graph(EG, traffic_data)
    /\ work' = [before |-> EG]
    /\ traffic' = [traffic EXCEPT !.data = traffic_data, !.calls = @ + 1]
    /\ UNCHANGED <<req, out, plan>>

NextApply == \E traffic_data \in ApplyData : ApplyTraffic(traffic_data)

SpecApply == InitApply /\ [][NextApply]_vars

\* ------------------------------------------- the searches, step by step
\* The three searches run one loop iteration and one step of the path
\* reconstruction at a time, on a road network with a cycle: 1 <-> 2, then
\* 1 -> 3 and 2 -> 3, then 3 -> 4.  No expansion cap, no constraints.
CycleSegs == { <<1,2,0>>, <<2,1,0>>, <<1,3,0>>, <<2,3,0>>, <<3,4,0>> }
CycleTimes ==
    { tt \in [CycleSegs -> 0..MaxTT] : SumOver(tt, CycleSegs) <= MaxTotal }
\* nothing closed, or the segment from 1 to 2 closed
CycleClosed ==
    { [e \in CycleSegs |-> "False"],
      [e \in CycleSegs |-> IF e = <<1,2,0>> THEN "True" ELSE "False"] }
CycleRequests ==
    { <<1, 4, FALSE>>, <<1, 3, FALSE>>, <<2, 2, TRUE>>, <<4, 2, FALSE>> }
Algorithms == {"dijkstra", "astar", "bidirectional_astar"}

\* work.pc: "idle", "loop" (in the main loop), "walk" (following prev from the
\* best target, or prev_fwd from the meeting segment), "walk_back" (following
\* prev_bwd), "done".  work.s holds the locals of the loop, work.path the
\* segments appended so far.
IdleRun ==
    [pc |-> "idle", alg |-> "none", s |-> <<>>, targets |-> {}, tx |-> 0,
     sx |-> 0, current |-> NoSeg, path |-> <<>>]

InitRun ==
    /\ \E tt \in CycleTimes, c \in CycleClosed,
          x \in Layouts, turn \in {0, MaxTurn} :
          EG = PlainGraph(CycleSegs, tt, c, turn, x)
    /\ \E r \in CycleRequests :
          req = [start |-> r[1], target |-> r[2], allow_closed |-> r[3]]
    /\ out = NoOut
    /\ plan = NoPlan
    /\ work = IdleRun
    /\ traffic = NoTraffic

Reverse(seq) == [i \in 1..Len(seq) |-> seq[Len(seq) + 1 - i]]

\* a walk that never leaves its segment
WalkStay(prev, current) == current

\* "current = prev.get(current)"
WalkNext(prev, current) == prev[current]

\* a search is called and reaches its main loop, or returns the null route
\* at once because no segment leaves the start or none enters the target
RunStart(alg) ==
    LET start_enodes == enodes_from_start(EG, req.start)
        target_enodes == target_nodes(EG, req.target)
        sample_target == CHOOSE t \in target_enodes : TRUE
        tx == EG.x[orig_v(sample_target)]
        sample_start == CHOOSE t \in start_enodes : TRUE
        sx == EG.x[orig_u(sample_start)]
        open(S) == { e \in S : ~(~req.allow_closed /\ is_enode_closed(EG, e)) }
    IN  /\ work.pc = "idle"
        /\ IF start_enodes = {} \/ target_enodes = {}
           THEN /\ work' = [work EXCEPT !.pc = "done", !.alg = alg]
                /\ out' = [alg |-> alg, res |-> NullRoute(0)]
           ELSE /\ work' =
                     [work EXCEPT
                        !.pc = "loop", !.alg = alg,
                        !.targets = target_enodes, !.tx = tx, !.sx = sx,
                        !.s = CASE alg = "dijkstra" ->
                                     DijkstraStart(EG, open(start_enodes))
                                [] alg = "astar" ->
                                     AstarStart(EG, open(start_enodes), tx, Vmax)
                                [] OTHER ->
                                     BidiStart(EG, open(start_enodes),
                                               open(target_enodes), tx, sx,
                                               Vmax)]
                /\ out' = out
        /\ UNCHANGED <<EG, req, plan, traffic>>

\* the test of the while statement
LoopGoesOn ==
    /\ work.s.run
    /\ IF work.alg = "dijkstra" THEN work.s.pq # {}
       ELSE IF work.alg = "astar" THEN work.s.open # {}
       ELSE work.s.open_fwd # {} /\ work.s.open_bwd # {}

\* one iteration of the main loop
RunIterate ==
    /\ work.pc = "loop"
    /\ LoopGoesOn
    /\ work' =
         [work EXCEPT
            !.s = CASE work.alg = "dijkstra" ->
                         DijkstraStep(EG, work.targets, req.allow_closed,
                                      NoneVal, work.s)
                    [] work.alg = "astar" ->
                         AstarStep(EG, work.targets, work.tx, Vmax,
                                   req.allow_closed, NoneVal, work.s)
                    [] OTHER ->
                         BidiStep(EG, work.tx, work.sx, Vmax,
                                  req.allow_closed, NoneVal, work.s)]
    /\ UNCHANGED <<EG, req, out, plan, traffic>>

\* the loop is left: null route if nothing was found, else the path
\* reconstruction begins
RunLeaveLoop ==
    LET found == IF work.alg = "bidirectional_astar"
                 THEN work.s.meeting_node ELSE work.s.best_target
    IN  /\ work.pc = "loop"
        /\ ~LoopGoesOn
        /\ IF found = NoSeg
           THEN /\ work' = [work EXCEPT !.pc = "done"]
                /\ out' = [alg |-> work.alg, res |-> NullRoute(work.s.expanded)]
           ELSE /\ work' = [work EXCEPT !.pc = "walk", !.current = found]
                /\ out' = out
        /\ UNCHANGED <<EG, req, plan, traffic>>

\* "while current is not None": one pass, or the end of the walk.  A chain
\* of predecessors without a cycle has at most one entry per segment.
RunWalk ==
    LET bidi == work.alg = "bidirectional_astar"
        prev == IF ~bidi THEN work.s.prev
                ELSE IF work.pc = "walk" THEN work.s.prev_fwd
                ELSE work.s.prev_bwd
    IN  /\ work.pc \in {"walk", "walk_back"}
        /\ Len(work.path) <= Cardinality(EG.segs)
        /\ IF work.current # NoSeg
           THEN /\ work' = [work EXCEPT
                              !.path = Append(@, work.current),
                              !.current = WalkNext(prev, work.current)]
                /\ out' = out
           ELSE IF bidi /\ work.pc = "walk"
           THEN /\ work' = [work EXCEPT
                              !.pc = "walk_back",
                              !.path = Reverse(@),
                              !.current = work.s.prev_bwd[work.s.meeting_node]]
                /\ out' = out
           ELSE /\ work' = [work EXCEPT
                              !.pc = "done",
                              !.path = IF bidi THEN @ ELSE Reverse(@)]
                /\ out' = [alg |-> work.alg,
                           res |-> FoundRoute(work'.path, work.s.best_cost,
                                              work.s.expanded)]
        /\ UNCHANGED <<EG, req, plan, traffic>>

NextRun ==
    \/ \E alg \in Algorithms : RunStart(alg)
    \/ RunIterate
    \/ RunLeaveLoop
    \/ RunWalk

SpecRun == InitRun /\ [][NextRun]_vars

\* a call that has begun goes on until it returns
SpecRunFair == SpecRun /\ WF_vars(NextRun)

\* ================================================================== claims
\* ------------------------------------------------- walks, the reference
\* the segments a search may use under allow_closed
Usable(G, allow_closed) ==
    { e \in G.segs : allow_closed \/ G.closed[e] # "True" }

\* the walks of n usable segments that begin with a segment of first
RECURSIVE WalksOfLen(_, _, _, _)
WalksOfLen(G, allow_closed, first, n) ==
    IF n = 1 THEN { <<e>> : e \in first \cap Usable(G, allow_closed) }
    ELSE LET shorter == WalksOfLen(G, allow_closed, first, n - 1)
         IN  { Append(p[1], p[2]) :
                 p \in { q \in shorter \X Usable(G, allow_closed) :
                           has_edge(G, q[1][Len(q[1])], q[2]) } }

\* Every walk from first to the target node, up to as many segments as the
\* graph has: a longer walk repeats a segment, and cutting the loop out of it
\* leaves a walk that costs no more.
WalksTo(G, allow_closed, first, target_node_id) ==
    { w \in UNION { WalksOfLen(G, allow_closed, first, n) :
                      n \in 1..Cardinality(G.segs) } :
        orig_v(w[Len(w)]) = target_node_id }

RECURSIVE WalkCostFrom(_, _, _)
WalkCostFrom(G, w, i) ==
    IF i > Len(w) THEN 0
    ELSE G.turn_cost[<<w[i - 1], w[i]>>]
         + G.travel_time[w[i]] * G.traffic_mult[w[i]] + G.penalty[w[i]]
         + WalkCostFrom(G, w, i + 1)

\* travel time of the first segment, then turn cost + travel time per step
WalkCost(G, w) ==
    G.travel_time[w[1]] * G.traffic_mult[w[1]] + G.penalty[w[1]]
    + WalkCostFrom(G, w, 2)

ReqWalks ==
    WalksTo(EG, req.allow_closed, enodes_from_start(EG, req.start), req.target)

Found(r) == r.route_enodes # <<>>

ReqDijkstra ==
    dijkstra_route(EG, req.start, req.target, NoConstraints, req.allow_closed, NoneVal)

\* C1: when dijkstra_route (no cap) returns a route, its cost is at most the
\* cost of every walk from a seed segment to a target segment that the search
\* may take; it returns the null route only when there is no such walk.
C1_DijkstraOptimal ==
    out.alg = "dijkstra" =>
        /\ Found(out.res) => \A w \in ReqWalks : out.res.cost <= WalkCost(EG, w)
        /\ ~Found(out.res) => ReqWalks = {}

\* dijkstra_route returned a route although a dearer walk was on offer
C1_Witness ==
    /\ out.alg = "dijkstra"
    /\ Found(out.res)
    /\ \E w \in ReqWalks : out.res.cost < WalkCost(EG, w)

\* the true remaining cost after segment e: the cheapest walk from e to the
\* target, less e's own travel time
Remaining(G, allow_closed, e, target_node_id) ==
    LET W == WalksTo(G, allow_closed, {e}, target_node_id)
    IN  IF W = {} THEN Inf
        ELSE LET best == CHOOSE w \in W : \A o \in W : WalkCost(G, w) <= WalkCost(G, o)
             IN  WalkCost(G, best) - enode_travel_time(G, e)

\* the heuristic never overestimates the true remaining cost
Admissible ==
    \A e \in Usable(EG, req.allow_closed) :
        heuristic(EG, e, EG.x[req.target], Vmax)
            <= Remaining(EG, req.allow_closed, e, req.target)

\* C3: with a heuristic that never overestimates, astar_route returns a route
\* exactly when dijkstra_route does, and at the same cost.
C3_AstarEqualsDijkstra ==
    (out.alg = "astar" /\ Admissible) =>
        /\ Found(out.res) = Found(ReqDijkstra)
        /\ out.res.cost = ReqDijkstra.cost

\* C4: when both return a route, the cost bidirectional_astar_route returns
\* never exceeds the cost dijkstra_route returns.
C4_BidiAtMostDijkstra ==
    (out.alg = "bidirectional_astar" /\ Found(out.res) /\ Found(ReqDijkstra)) =>
        out.res.cost <= ReqDijkstra.cost

\* C5: the cost bidirectional_astar_route returns is never smaller than the
\* cost dijkstra_route returns for the same request.
C5_BidiAtLeastDijkstra ==
    out.alg = "bidirectional_astar" => out.res.cost >= ReqDijkstra.cost

\* both searches returned a route, and the bidirectional cost is the optimum
C5_Witness ==
    /\ out.alg = "bidirectional_astar"
    /\ Found(out.res)
    /\ Found(ReqDijkstra)
    /\ out.res.cost = ReqDijkstra.cost
    /\ Len(out.res.route_enodes) >= 3

ReqRoutes == routes_found(EG, req.start, req.target, req.allow_closed)

\* C7: _run_search returns one of the three results, and none of the three
\* has a strictly smaller route travel time (compute_route_tt) than it.
C7_RunSearchLowestTime ==
    out.alg = "run_search" =>
        IF out.res.none
        THEN \A i \in 1..3 : compute_route_tt(EG, ReqRoutes[i].route_enodes) = Inf
        ELSE /\ \E i \in 1..3 : SomeRoute(ReqRoutes[i]) = out.res
             /\ \A i \in 1..3 :
                   ~(compute_route_tt(EG, ReqRoutes[i].route_enodes)
                       < compute_route_tt(EG, out.res.route_enodes))

\* _run_search returned a route while another of the three takes longer
C7_Witness ==
    /\ out.alg = "run_search"
    /\ ~out.res.none
    /\ \E i \in 1..3 :
          /\ Found(ReqRoutes[i])
          /\ compute_route_tt(EG, ReqRoutes[i].route_enodes)
               > compute_route_tt(EG, out.res.route_enodes)

\* C10: with allow_closed false, no route returned by one of the three
\* searches holds a segment marked closed, first, last or in between.
C10_NoClosedSegment ==
    (out.alg \in {"dijkstra", "astar", "bidirectional_astar"} /\ ~req.allow_closed) =>
        \A i \in 1..Len(out.res.route_enodes) :
            EG.closed[out.res.route_enodes[i]] # "True"

\* a search returned a route although a cheaper walk runs over a closed segment
C10_Witness ==
    /\ out.alg \in {"dijkstra", "astar", "bidirectional_astar"}
    /\ ~req.allow_closed
    /\ Found(out.res)
    /\ \E w \in WalksTo(EG, TRUE, enodes_from_start(EG, req.start), req.target) :
          /\ \E i \in 1..Len(w) : EG.closed[w[i]] = "True"
          /\ WalkCost(EG, w) < compute_route_tt(EG, out.res.route_enodes)

\* ------------------------------------------------------- planner claims
PlanDone == plan.pc \in {"returned", "raised"}

\* the call named a vehicle type of VEHICLE_PROFILES
KnownVehicle == plan.vehicle_type \in VehicleTypes

\* what the three searches return for the planning call at hand
PlanRoutes == routes_found(EG, plan.start, plan.target, plan.closed)

HasClosed(route_enodes) ==
    \E i \in 1..Len(route_enodes) : EG.closed[route_enodes[i]] = "True"

\* C2: when all three searches return the null route at every level,
\* _plan_route returns the infeasible sentinel (valid = false, total_time =
\* +infinity, relax_level = null, null route fields) and does not raise.
C2_NoPathSentinel ==
    (PlanDone /\ KnownVehicle /\ \A i \in 1..3 : ~Found(PlanRoutes[i])) =>
        /\ plan.pc = "returned"
        /\ plan.result.valid = FALSE
        /\ plan.result.total_time = Inf
        /\ plan.result.relax_level = NoneVal
        /\ plan.result.route_nodes = <<>>
        /\ plan.result.route_enodes = <<>>

\* the attempt at a level failed: no path, or the selected route is invalid
Failed(attempt) == attempt.none \/ ~attempt.valid

\* C6: _plan_route tries the levels 0, 1, ... in ascending order; a level that
\* finds no path or whose route fails validation is followed by the next
\* level (the call ends on a failed level only at max_relax_level, and never
\* by raising); it returns at the first level whose route passes
\* validate_route, with that level as relax_level.
C6_LevelsInOrder ==
    KnownVehicle =>
        /\ \A i \in 1..Len(plan.attempts) :
              /\ plan.attempts[i].level = i - 1
              /\ i < Len(plan.attempts) => Failed(plan.attempts[i])
        /\ plan.pc # "raised"
        /\ (PlanDone /\ Failed(plan.attempts[Len(plan.attempts)])) =>
              /\ Len(plan.attempts) = plan.max_relax_level + 1
              /\ plan.result = Infeasible(plan.start, plan.target, plan.vehicle_type)
        /\ (PlanDone /\ ~Failed(plan.attempts[Len(plan.attempts)])) =>
              /\ plan.result.valid
              /\ plan.result.relax_level = Len(plan.attempts) - 1

\* C8: for every profile and level, no route _plan_route returns holds a
\* segment marked closed, and every level of one call passes the same
\* allow_closed to the searches.
C8_ClosedExcluded ==
    /\ plan.pc = "returned" => ~HasClosed(plan.result.route_enodes)
    /\ \A i, j \in 1..Len(plan.attempts) :
          plan.attempts[i].allow_closed = plan.attempts[j].allow_closed

\* the diamond of the end-to-end scenario: every segment plain, start 1,
\* target 4, the ambulance profile
DiamondCall ==
    /\ PlanDone
    /\ plan.vehicle_type = "ambulance"
    /\ plan.start = 1
    /\ plan.target = 4
    /\ \A e \in PlanSegs : EG.lanes[e] = NoneVal /\ EG.bridge[e] = "no"

BranchTime(branch) == SumOver(EG.travel_time, branch)

\* C9: on the diamond with branch B closed and branch A open the ambulance
\* gets, at level 0, the route through A whatever the two branches cost; with
\* no segment closed it gets a valid route as cheap as the cheaper branch.
C9_DiamondThroughA ==
    /\ (DiamondCall /\ (\E e \in BranchB : EG.closed[e] = "True")
                    /\ (\A e \in BranchA : EG.closed[e] # "True")) =>
          /\ plan.pc = "returned"
          /\ plan.result.valid
          /\ plan.result.relax_level = 0
          /\ plan.result.route_enodes = << <<1,2,0>>, <<2,4,0>> >>
    /\ (DiamondCall /\ \A e \in PlanSegs : EG.closed[e] # "True") =>
          /\ plan.pc = "returned"
          /\ plan.result.valid
          /\ \A branch \in {BranchA, BranchB} :
                plan.result.total_time <= BranchTime(branch)

\* ------------------------------------------------ search option claims
SearchCalled == out.alg \in {"dijkstra", "astar", "bidirectional_astar"}

\* the seed and target segments the request leaves after the constraint filter
SeedsLeft ==
    filter_enodes(EG, enodes_from_start(EG, req.start),
                  ConstraintsOf(req.constraints))
TargetsLeft ==
    filter_enodes(EG, target_nodes(EG, req.target),
                  ConstraintsOf(req.constraints))

\* C11: whenever no seed or no target segment is left, because the identifier
\* matches no segment or because the constraint filter removed them all, each
\* of the three searches returns the null route (null route fields, infinite
\* cost) and does not raise.
C11_NullRouteWhenNoSeeds ==
    (SearchCalled /\ (SeedsLeft = {} \/ TargetsLeft = {})) =>
        /\ ~out.res.raised
        /\ out.res.route_nodes = <<>>
        /\ out.res.route_enodes = <<>>
        /\ out.res.cost = Inf

\* C12: _plan_route called with a vehicle type that is no key of
\* VEHICLE_PROFILES raises the unknown-vehicle-type ValueError, before any
\* search is run and before any working copy is made.
C12_UnknownVehicleFailsFast ==
    (PlanDone /\ ~KnownVehicle) =>
        /\ plan.pc = "raised"
        /\ plan.error = "ValueError"
        /\ plan.attempts = <<>>

\* the expansions the search makes when it runs with no cap: every "expanded
\* += 1" of the capped run is one of these
Uncapped ==
    CASE out.alg = "dijkstra" ->
            dijkstra_route(EG, req.start, req.target,
                ConstraintsOf(req.constraints), req.allow_closed, NoneVal)
      [] out.alg = "astar" ->
            astar_route(EG, req.start, req.target,
                ConstraintsOf(req.constraints), Vmax, req.allow_closed, NoneVal)
      [] OTHER ->
            bidirectional_astar_route(EG, req.start, req.target, Vmax,
                req.allow_closed, ConstraintsOf(req.constraints), NoneVal)

\* C13: whenever one of the three searches stops because its expansion cap
\* was reached, the result is the null route and its expanded field is the
\* number of expansions made up to the stop: at least the cap, and no more
\* than the search makes without a cap.
C13_CapGivesNullRoute ==
    (SearchCalled /\ out.res.capped) =>
        /\ out.res.route_nodes = <<>>
        /\ out.res.route_enodes = <<>>
        /\ out.res.cost = Inf
        /\ out.res.expanded >= req.max_visits
        /\ out.res.expanded <= Uncapped.expanded

\* -------------------------------------------------- live traffic claims
\* a step of the planning call: its position or its locals change
PlannerStep == plan' # plan \/ work' # work

\* C14: no step of _plan_route, at whatever level and however the call ends,
\* changes the base graph: every segment attribute, every transition and
\* every turn cost stays as it was before the step.
C14_BaseGraphUnchanged == [][PlannerStep => EG' = EG]_vars

\* a call that ended after two or more attempts, on a base graph whose
\* multipliers traffic has rewritten meanwhile
C14_Witness ==
    /\ PlanDone
    /\ Len(plan.attempts) >= 2
    /\ EG.traffic_mult # TrafficGraph.traffic_mult

\* the working copy an attempt made
CopyOf(attempt) == [EG EXCEPT !.traffic_mult = attempt.mult]

\* C15: in every interleaving with apply_traffic_to_graph, each attempt's
\* route is the one _run_search selects on the attempt's own working copy, its
\* verdict is validate_route's on that copy, and its total_time is the travel
\* time of that route under the copy's multipliers, whatever was written to
\* the base graph after the copy; the returned record carries the last
\* attempt's route and total_time.
C15_AttemptUsesItsCopy ==
    /\ \A i \in 1..Len(plan.attempts) :
          LET attempt == plan.attempts[i]
              found == _run_search(CopyOf(attempt), plan.start, plan.target,
                                   plan.closed)
          IN  /\ attempt.none = found.none
              /\ ~attempt.none =>
                    /\ attempt.route_enodes = found.route_enodes
                    /\ attempt.valid =
                         validate_route(CopyOf(attempt), attempt.route_enodes,
                             relax_constraints(
                                 VEHICLE_PROFILES[plan.vehicle_type],
                                 attempt.level))[1]
                    /\ attempt.total_time =
                         compute_route_tt(CopyOf(attempt), attempt.route_enodes)
    /\ (plan.pc = "returned" /\ plan.result.valid) =>
          LET last == plan.attempts[Len(plan.attempts)]
          IN  /\ plan.result.route_enodes = last.route_enodes
              /\ plan.result.total_time = last.total_time

\* a route returned after traffic has rewritten the base graph: on the base
\* graph as it is now the route takes another time, or another route wins
C15_Witness ==
    /\ plan.pc = "returned"
    /\ plan.result.valid
    /\ compute_route_tt(EG, plan.result.route_enodes) # plan.result.total_time
    /\ _run_search(EG, plan.start, plan.target, plan.closed).route_enodes
         # plan.result.route_enodes

\* ------------------------------------------------ constraint engine claims
RelaxCalled == out # NoOut /\ out.alg = "relax_constraints"
EdgeCalled == out # NoOut /\ out.alg = "validate_single_edge"
RouteCalled == out # NoOut /\ out.alg = "validate_route"

\* dict a holds every key of dict b, with b's value
KeySubset(b, a) ==
    /\ DOMAIN b \subseteq DOMAIN a
    /\ \A k \in DOMAIN b : b[k] = a[k]

\* C16: relaxation is monotonic.  The constraints returned for a level hold
\* only keys, with unchanged values, of the constraints of every lower level,
\* and a route that validate_route accepts under a lower level is accepted
\* under the level asked for.
C16_RelaxMonotonic ==
    /\ RelaxCalled =>
          \A k \in 0..(req.level - 1) :
              KeySubset(out.res, relax_constraints(req.base, k))
    /\ RouteCalled =>
          \A k \in 0..(req.level - 1) :
              validate_route(EG, req.route, relax_constraints(req.base, k))[1]
                 => out.res[1]

\* a route of two segments that levels 0 and 1 reject is accepted under
\* level 2, which has fewer keys than level 1, which has fewer than level 0
C16_Witness ==
    /\ RouteCalled
    /\ req.level = 2
    /\ Len(req.route) >= 2
    /\ out.res[1]
    /\ ~validate_route(EG, req.route, relax_constraints(req.base, 0))[1]
    /\ ~validate_route(EG, req.route, relax_constraints(req.base, 1))[1]
    /\ DOMAIN relax_constraints(req.base, 2)
          # DOMAIN relax_constraints(req.base, 1)
    /\ DOMAIN relax_constraints(req.base, 1) # DOMAIN req.base

\* C17: at level 3 and above the dict relax_constraints returns has no key
\* other than avoid_closed; the dict it was given is the same after the call
\* as before; at level 0 the returned dict equals the given one.
C17_OnlyAvoidClosedAndBaseKept ==
    RelaxCalled =>
        /\ req.base = InputProfile(req.profile)
        /\ req.level >= 3 => DOMAIN out.res \subseteq {"avoid_closed"}
        /\ req.level = 0 => out.res = req.base

\* a profile of nine keys is cut down to avoid_closed alone at a level above 3
C17_Witness ==
    /\ RelaxCalled
    /\ req.level > 3
    /\ DOMAIN out.res = {"avoid_closed"}
    /\ out.res["avoid_closed"] = req.base["avoid_closed"]
    /\ Cardinality(DOMAIN req.base) = 9

\* the constraints a validation call was made under
UsedConstraints == relax_constraints(req.base, req.level)

\* what validate_single_edge says of the i-th segment of the validated route
SegmentVerdict(i) == validate_single_edge(EG, req.route[i], UsedConstraints)

\* C18: validate_route returns (false, +infinity) for the empty route; for a
\* non-empty route it returns (false, +infinity) when validate_single_edge
\* hard-rejects one of its segments, and otherwise (true, p) with p the sum of
\* the penalties of its segments.
C18_ValidateRoute ==
    RouteCalled =>
        LET idx == 1..Len(req.route)
        IN  /\ req.route = <<>> => out.res = <<FALSE, Inf>>
            /\ (\E i \in idx : ~SegmentVerdict(i)[1]) => out.res = <<FALSE, Inf>>
            /\ (req.route # <<>> /\ \A i \in idx : SegmentVerdict(i)[1]) =>
                  out.res = <<TRUE, SumOver([i \in idx |-> SegmentVerdict(i)[2]],
                                            idx)>>

\* an accepted route of three segments whose penalties differ and add up
C18_Witness ==
    /\ RouteCalled
    /\ Len(req.route) = 3
    /\ out.res[1]
    /\ SegmentVerdict(1)[2] # SegmentVerdict(2)[2]
    /\ SegmentVerdict(2)[2] > 0
    /\ out.res[2] = SegmentVerdict(1)[2] + SegmentVerdict(2)[2]
                      + SegmentVerdict(3)[2]

\* the attributes of the first segment that are declared are readable numbers
Readable ==
    Unparsable \notin
        {EG.maxheight[FirstSeg], EG.maxweight[FirstSeg], EG.lanes[FirstSeg]}

\* the declared value of an attribute, or the given value if it is undeclared
Declared(v, undeclared) == IF v = NoneVal THEN undeclared ELSE v

\* the four hard rejections, for the first segment under the used constraints
HardRejected ==
    LET c == UsedConstraints
        is_bridge == EG.bridge[FirstSeg] \in {"yes", "true", "1"}
        is_tunnel == EG.tunnel[FirstSeg] \in {"yes", "true", "1"}
    IN  \/ /\ is_bridge
           /\ "max_height" \in DOMAIN c
           /\ Declared(EG.maxheight[FirstSeg], 50) > c["max_height"]
        \/ /\ is_bridge
           /\ "max_weight" \in DOMAIN c
           /\ Declared(EG.maxweight[FirstSeg], 300) > c["max_weight"]
        \/ /\ is_tunnel
           /\ "max_height" \in DOMAIN c
           /\ Declared(EG.maxheight[FirstSeg], 45) > c["max_height"]
        \/ /\ "min_lanes" \in DOMAIN c
           /\ Declared(EG.lanes[FirstSeg], 2) < c["min_lanes"]

LowBridge ==
    LET c == UsedConstraints
    IN  /\ EG.bridge[FirstSeg] = "yes"
        /\ EG.tunnel[FirstSeg] = "no"
        /\ EG.maxheight[FirstSeg] = 30
        /\ Readable
        /\ "max_height" \in DOMAIN c
        /\ "max_weight" \in DOMAIN c =>
              Declared(EG.maxweight[FirstSeg], 300) <= c["max_weight"]
        /\ "min_lanes" \in DOMAIN c =>
              Declared(EG.lanes[FirstSeg], 2) >= c["min_lanes"]

\* C20: for a bridge segment of declared max height 3.0 on which no weight
\* limit is violated, validate_single_edge returns (false, +infinity) under a
\* max_height of 3.5, rejects the segment under a max_height of 2.5, and
\* accepts it under a max_height of 4.0.
C20_LowBridgeExample ==
    (EdgeCalled /\ LowBridge) =>
        /\ UsedConstraints["max_height"] = 35 => out.res = <<FALSE, Inf>>
        /\ UsedConstraints["max_height"] = 25 => ~out.res[1]
        /\ UsedConstraints["max_height"] = 40 => out.res[1]

\* the penalties validate_single_edge gives the first segment for its tunnel,
\* bridge and road type
OtherPenalties ==
    LET c == UsedConstraints
        npp == IF "non_preferred_penalty" \in DOMAIN c
               THEN c["non_preferred_penalty"] ELSE 10
        one(key, v) == IF key \in DOMAIN c /\ v \notin c[key] THEN npp ELSE 0
    IN  one("tunnel", EG.tunnel[FirstSeg]) + one("bridge", EG.bridge[FirstSeg])
          + one("road_type", EG.highway[FirstSeg])

\* avoid_closed is configured true in the constraints used
AvoidsClosed ==
    "avoid_closed" \in DOMAIN UsedConstraints /\ UsedConstraints["avoid_closed"]

\* C21: with avoid_closed configured true, a segment that is_enode_closed
\* treats as open (closed flag false or absent) gets no avoid-closed penalty
\* from validate_single_edge: its penalty is that of the other rules alone.
C21_OpenSegmentNoClosedPenalty ==
    (EdgeCalled /\ out.res[1] /\ AvoidsClosed
        /\ ~is_enode_closed(EG, FirstSeg)) => out.res[2] = OtherPenalties

\* ---------------------------------------------------- edge graph claims
Built == EG # EmptyGraph

\* the direction of segment a, and the vector from a's destination to b's
DirectionOf(a) == Minus(EG.pos[orig_v(a)], EG.pos[orig_u(a)])
Onward(a, b) == Minus(EG.pos[orig_v(b)], EG.pos[orig_v(a)])
TurnAngle(t) == AngleUnits(DirectionOf(t[1]), Onward(t[1], t[2]))
LeftTurn(t) == Cross(DirectionOf(t[1]), Onward(t[1], t[2])) > 0

\* C22: the turn cost of a transition A -> B depends on the turn geometry.
\* Among the transitions out of one segment it is strictly higher for the
\* larger angle between A's direction and the vector from A's destination to
\* B's destination; a left turn costs left_turn_mult times a non-left turn of
\* the same angle; and two transitions that differ in angle or handedness
\* differ in cost.
C22_TurnCostFollowsGeometry ==
    Built =>
        \A t1, t2 \in DOMAIN EG.turn_cost :
            t1[1] = t2[1] =>
                /\ (LeftTurn(t1) = LeftTurn(t2) /\ TurnAngle(t1) < TurnAngle(t2))
                      => EG.turn_cost[t1] < EG.turn_cost[t2]
                /\ (TurnAngle(t1) = TurnAngle(t2) /\ LeftTurn(t1)
                       /\ ~LeftTurn(t2))
                      => 2 * EG.turn_cost[t1]
                            = req.left_turn_mult * EG.turn_cost[t2]
                /\ (TurnAngle(t1) # TurnAngle(t2)
                       \/ LeftTurn(t1) # LeftTurn(t2))
                      => EG.turn_cost[t1] # EG.turn_cost[t2]

Converted == out # NoOut /\ out.alg = "convert"

\* C23: the node-route of a non-empty edge-route of k segments has k + 1
\* entries, the origin and the destination of the first segment and then the
\* destination of every later segment ([(1,2,0),(2,3,0),(3,4,0)] gives
\* [1,2,3,4]); the inline conversion of the searches and
\* convert_edge_route_to_node_route give the same node-route; the edge-route
\* and the graph are as they were before the conversion.
C23_NodeRoute ==
    /\ route_nodes_of(<< <<1,2,0>>, <<2,3,0>>, <<3,4,0>> >>) = <<1, 2, 3, 4>>
    /\ Converted =>
          LET r == req.edge_route
              n == out.res.node_route
          IN  /\ out.res.inline = n
              /\ r # <<>> =>
                    /\ Len(n) = Len(r) + 1
                    /\ n[1] = r[1][1]
                    /\ \A i \in 1..Len(r) : n[i + 1] = r[i][2]
              /\ EG.segs = req.roads
              /\ \A e \in EG.segs : EG.orig_u[e] = e[1] /\ EG.orig_v[e] = e[2]

\* a connected route of three segments that comes back to a node
C23_Witness ==
    /\ Converted
    /\ req.edge_route = << <<1,2,0>>, <<2,3,0>>, <<3,2,0>> >>
    /\ out.res.node_route = <<1, 2, 3, 2>>

\* ------------------------------------------------------ traffic data claims
Applied == traffic.calls > 0 /\ traffic.pc = "idle" /\ req = NoneVal

\* C24: after apply_traffic_to_graph the multiplier of a segment whose id is
\* a key of the mapping is the mapped value and the multiplier of every other
\* segment is what it was; every other attribute, the transitions and the
\* turn costs are what they were; applying the same mapping again changes
\* nothing.
C24_ApplyTrafficFrame ==
    Applied =>
        /\ \A en \in EG.segs :
              IF _edge_id_str(en) \in DOMAIN traffic.data
              THEN EG.traffic_mult[en] = traffic.data[_edge_id_str(en)]
              ELSE EG.traffic_mult[en] = work.before.traffic_mult[en]
        /\ [EG EXCEPT !.traffic_mult = work.before.traffic_mult] = work.before
        /\ apply_traffic_to_graph(EG, traffic.data) = EG

\* a mapping that names one segment of the graph and a segment the graph
\* does not have, applied to a graph whose other multipliers are not 1
C24_Witness ==
    /\ Applied
    /\ DOMAIN traffic.data = {_edge_id_str(<<1,2,1>>), _edge_id_str(ForeignSeg)}
    /\ EG.traffic_mult[<<1,2,1>>] = 3
    /\ work.before.traffic_mult[<<1,2,1>>] = 2
    /\ EG.traffic_mult[<<1,2,0>>] = 2
    /\ EG.traffic_mult[<<2,3,0>>] = 3

\* ------------------------------------------------------ returned route claims
\* C25: a non-null route returned by dijkstra_route, astar_route or
\* bidirectional_astar_route is a connected walk: its first segment leaves the
\* requested start node, its last segment ends at the requested target node,
\* and each segment is joined to the next by a transition of the graph, the
\* earlier one ending where the later one begins.
C25_RouteIsConnectedWalk ==
    (SearchCalled /\ Found(out.res)) =>
        LET r == out.res.route_enodes
        IN  /\ r[1] \in enodes_from_start(EG, req.start)
            /\ r[Len(r)] \in target_nodes(EG, req.target)
            /\ \A i \in 1..(Len(r) - 1) :
                  /\ has_edge(EG, r[i], r[i + 1])
                  /\ orig_v(r[i]) = orig_u(r[i + 1])

\* the bidirectional search returns a route of four segments
C25_Witness ==
    /\ out.alg = "bidirectional_astar"
    /\ Len(out.res.route_enodes) = 4
    /\ orig_u(out.res.route_enodes[1]) = req.start
    /\ orig_v(out.res.route_enodes[4]) = req.target

\* ---------------------------------------------------- step-by-step claims
RunDone == work.pc = "done"

\* what the search functions return for the request, computed in one piece
ReqResult(alg) ==
    CASE alg = "dijkstra" -> ReqDijkstra
      [] alg = "astar" ->
            astar_route(EG, req.start, req.target, NoConstraints, Vmax,
                        req.allow_closed, NoneVal)
      [] OTHER ->
            bidirectional_astar_route(EG, req.start, req.target, Vmax,
                                      req.allow_closed, NoConstraints, NoneVal)

\* the run taken step by step returns what the function returns
RunAgrees == RunDone => out.res = ReqResult(out.alg)

\* C26: without an expansion cap each of the three searches terminates: the
\* main loop ends and the walk along the predecessors reaches a seed.
C26_SearchTerminates == <>RunDone

\* a bidirectional search that returned a route after six or more pops
C26_Witness ==
    /\ RunDone
    /\ out.alg = "bidirectional_astar"
    /\ Found(out.res)
    /\ out.res.expanded >= 6

\* C27: without an expansion cap bidirectional_astar_route returns a route
\* exactly when dijkstra_route returns one for the same graph, start, target
\* and allow_closed.
C27_BidiComplete ==
    (RunDone /\ out.alg = "bidirectional_astar") =>
        Found(out.res) = Found(ReqDijkstra)

\* C28: the cost a search returns with a route is the travel time of that
\* route as compute_route_tt computes it.
C28_CostIsRouteTime ==
    (SearchCalled /\ Found(out.res)) =>
        out.res.cost = compute_route_tt(EG, out.res.route_enodes)

\* the loop ended because the backward queue ran empty while the forward
\* queue still held entries, and a route of three segments is returned
C27_Witness ==
    /\ RunDone
    /\ out.alg = "bidirectional_astar"
    /\ Len(out.res.route_enodes) = 3
    /\ work.s.open_bwd = {}
    /\ work.s.open_fwd # {}

\* ------------------------------------------------------ relaxation claims
\* C29: within one _plan_route call on an unchanged graph every relaxation
\* level is handed the same candidate route by _run_search, found with the
\* same allow_closed: the levels differ only in the verdict on that route.
C29_SameCandidateAtEveryLevel ==
    \A i, j \in 1..Len(plan.attempts) :
        /\ plan.attempts[i].route_enodes = plan.attempts[j].route_enodes
        /\ plan.attempts[i].none = plan.attempts[j].none
        /\ plan.attempts[i].allow_closed = plan.attempts[j].allow_closed

\* a route rejected at levels 0 and 1 is accepted, the same route, at level 2
C29_Witness ==
    /\ PlanDone
    /\ Len(plan.attempts) = 3
    /\ plan.result.valid
    /\ ~plan.attempts[1].valid
    /\ ~plan.attempts[2].valid
    /\ plan.result.route_enodes = plan.attempts[1].route_enodes
    /\ Len(plan.result.route_enodes) = 2

\* C30: for a built-in profile and a route valid under two consecutive
\* levels, the penalty validate_route assigns under the higher level is not
\* greater than the penalty it assigns under the lower one.
C30_PenaltyNeverGrows ==
    (RouteCalled /\ req.profile \in VehicleTypes /\ req.level >= 1
        /\ out.res[1]) =>
        LET lower == validate_route(EG, req.route,
                                    relax_constraints(req.base, req.level - 1))
        IN  lower[1] => out.res[2] <= lower[2]

=============================================================================
